---------------------------- MODULE Spec2Model ----------------------------
(***************************************************************************)
(* ClogsServer: the processor framework.                                   *)
(*                                                                         *)
(*   - the registry       src/src/processors/manager.py  (load_all, ...)   *)
(*   - the interception   src/src/database.py            (ProcessorSession)*)
(*   - the log compressor src/src/processors/incremental/log_compressor.py *)
(*   - the scheduler      src/src/processors/manager.py  (interval loops)  *)
(*   - the wiring         src/main.py                    (lifespan)        *)
(*                                                                         *)
(* The module holds several specifications over one set of variables; each *)
(* leaves the variables of the other parts unchanged:                      *)
(*   SpecHook   registry + interception of add / delete / get              *)
(*   SpecLog    the intercepted insert of log lines (log compressor)       *)
(*   SpecLoop   supervisor, per-processor loops, worker threads, shutdown  *)
(*   FairLoop   SpecLoop with the fairness the event loop provides         *)
(*   SpecTick   one processor's tick against the store                     *)
(*   SpecUptime     the uptime processor's ticks for one container         *)
(*   SpecHeartbeat  the heartbeat processor's liveness passes for an agent *)
(*   SpecFleet      the liveness pass over several agents and containers   *)
(*   SpecServe      requests and ticks of a loaded server                  *)
(*   SpecCadence    the sleep between the ticks of one processor's loop    *)
(***************************************************************************)
EXTENDS Integers, Sequences, FiniteSets, TLC

VARIABLES
    \* ---- ProcessorManager (manager.py 14-22)
    processors,          \* list of processor instances, in registration order
    processors_by_model, \* model type -> list of instances (positions in processors)
    running,             \* the manager's running flag
    \* ---- registry / interception bookkeeping
    loaded,              \* load_all has run (lifespan, main.py 24-25)
    discovered,          \* None, or what load_all was given to load and whether it raised
    startup_calls,       \* class name -> number of on_startup calls
    lastOp,              \* the last intercepted store operation and what it did
    \* ---- log table (SpecLog)
    logs,                \* committed rows of the Log table, in insertion order
    clock,               \* timestamp source of the agents sending log lines
    inserted,            \* the log lines handed to the intercepted insert, in order
    \* ---- scheduler (SpecLoop)
    sup,                 \* the start_interval_loop task
    supCancel,           \* cancel() was requested on that task and not yet delivered
    loop,                \* processor -> state of its _run_processor_loop task
    loopCancel,          \* processor -> cancel() requested and not yet delivered
    thread,              \* processor -> state of the worker thread running its tick
    session,             \* processor -> "closed" | "open" (Processor._session)
    lifespan,            \* state of the lifespan context manager (main.py)
    shutdown_calls,      \* number of ProcessorManager.shutdown() calls so far
    on_shutdown_calls,   \* processor -> number of on_shutdown() calls
    close_calls,         \* processor -> number of close() calls
    tick_after_shutdown, \* processor -> a tick was started after a shutdown() call
    \* ---- one tick against the store (SpecTick)
    proc,                \* the processor whose tick is modelled (its generic args)
    store,               \* committed rows (input and output tables), a sequence
    tick,                \* position of the worker thread in _execute_processor_interval
    results,             \* the rows fetched at the start of the per-row pass
    idx,                 \* index of the next row of results
    pending,             \* writes staged in the tick's session, not yet committed
    last_run,            \* the processor's _last_run (0: never set)
    now,                 \* wall clock of the tick model
    tickLog,             \* what the last finished tick did
    \* ---- the analytical processors and their tables (SpecUptime, SpecHeartbeat)
    wall,                \* time(), in seconds (positive)
    agent,               \* the Agent row (heartbeat_interval)
    heartbeats,          \* timestamps of the agent's Heartbeat rows, in seconds
    alive_agent,         \* AliveAgent.state of the agent, or None (no row)
    container,           \* the agent's Container row (created_at)
    container_state,     \* the container's ContainerState row (status), or None
    container_uptime,    \* the container's ContainerUptime row, or None
    uptime_sections,     \* the container's UptimeSection rows, in insertion order
    uptime_last_run,     \* UptimeProcessor._last_run; 0 until a tick completed
    ticks,               \* ticks of the analytical processors run so far
    \* ---- the cadence of one processor's loop (SpecCadence)
    cadence              \* the clock and the locals of _run_processor_loop

hookVars == <<processors, processors_by_model, loaded, discovered, startup_calls, lastOp>>
logVars  == <<logs, clock, inserted>>
loopVars == <<running, sup, supCancel, loop, loopCancel, thread, session, lifespan,
              shutdown_calls, on_shutdown_calls, close_calls, tick_after_shutdown>>
tickVars == <<proc, store, tick, results, idx, pending, last_run, now, tickLog>>
anaVars  == <<wall, agent, heartbeats, alive_agent, container, container_state,
              container_uptime, uptime_sections, uptime_last_run, ticks>>
cadVars  == <<cadence>>
vars == <<hookVars, logVars, loopVars, tickVars, anaVars, cadVars>>

(***************************************************************************)
(* Values                                                                  *)
(***************************************************************************)
\* Python's None (a value), and the absence of a type ("None" as a type tag).
NoneVal == [kind |-> "None"]

\* Largest primary key used for entities.
MaxId == 2
Ids == 1 .. MaxId

\* Entity types.  SubLog stands for a subclass of Log.
Types == {"Log", "SubLog", "Container", "Heartbeat"}

\* by = 0: the object the caller holds; by = i > 0: an object made by the
\* hook of the processor registered at position i.
Entity(t, k, by) == [kind |-> "entity", type |-> t, id |-> k, by |-> by]

\* type(x) of an entity.
TypeOf(x) == x.type

\* isinstance(x, t): exact type or a subclass.
isinstance(x, t) == x.kind = "entity" /\ (x.type = t \/ (x.type = "SubLog" /\ t = "Log"))

\* Every hook result taken as a value, None included.
TruthyAlways(x) == TRUE

\* Truth value of a hook result as Python's `not pp` sees it: None is falsy,
\* a model instance is truthy.
Truthy(x) == x # NoneVal


(***************************************************************************)
(* Processor classes (inputs of discovery)                                 *)
(***************************************************************************)
\* A processor class: its name, the generic arguments pydantic recorded for
\* its base (<<>>: none found, else <<X, Y>>), whether cls() succeeds and
\* whether on_startup() returns without raising.
Class(name, args, ctor_ok, startup_ok) ==
    [name |-> name, args |-> args, ctor_ok |-> ctor_ok, startup_ok |-> startup_ok]

\* The three processors of the repository.
LogCompressorProcessor == Class("LogCompressorProcessor", <<"Log", "Log">>, TRUE, TRUE)
HeartbeatProcessor == Class("HeartbeatProcessor", <<"Heartbeat", "NoneType">>, TRUE, TRUE)
UptimeProcessor == Class("UptimeProcessor", <<"Container", "NoneType">>, TRUE, TRUE)

\* Further processor classes a deployment may drop into the directory.
LogAudit == Class("LogAudit", <<"Log", "None">>, TRUE, TRUE)
LogTagger == Class("LogTagger", <<"Log", "NoneType">>, TRUE, TRUE)
LogToContainer == Class("LogToContainer", <<"Log", "Container">>, TRUE, TRUE)
SubLogProcessor == Class("SubLogProcessor", <<"SubLog", "SubLog">>, TRUE, TRUE)
Untyped == Class("Untyped", <<>>, TRUE, TRUE)
BrokenCtor == Class("BrokenCtor", <<"Log", "Log">>, FALSE, TRUE)
BrokenStartup == Class("BrokenStartup", <<"Log", "Log">>, TRUE, FALSE)
\* A class whose file raises when it is imported.
BrokenModule == Class("BrokenModule", <<"Log", "Log">>, TRUE, TRUE)

\* What load_processors may find, in discovery order.
ClassLists ==
    { <<HeartbeatProcessor, UptimeProcessor, LogCompressorProcessor>>,
      <<LogAudit, LogCompressorProcessor>>,
      <<LogCompressorProcessor, LogTagger, LogToContainer>>,
      <<LogToContainer, Untyped, LogAudit>>,
      <<SubLogProcessor, LogTagger, LogCompressorProcessor>>,
      <<BrokenCtor, BrokenStartup, LogCompressorProcessor>>,
      <<LogCompressorProcessor, BrokenModule, LogTagger>> }

(***************************************************************************)
(* Registry: ProcessorManager                                              *)
(***************************************************************************)
\* manager.py 53-59
_get_pydantic_generic_args(cls) == cls.args

\* manager.py 46-47: the input type, or "None"
get_model_type(cls) ==
    IF _get_pydantic_generic_args(cls) # <<>> THEN _get_pydantic_generic_args(cls)[1] ELSE "None"

\* manager.py 49-50: the output type, or "None"
get_output_type(cls) ==
    IF _get_pydantic_generic_args(cls) # <<>> THEN _get_pydantic_generic_args(cls)[2] ELSE "None"

\* manager.py 61-62
get_processors(model_type) ==
    IF model_type \in DOMAIN processors_by_model THEN processors_by_model[model_type] ELSE <<>>

\* The newest instance put at the head of the type's list.
IndexByModelPrepend(by_model, model_type, pos) ==
    IF model_type \in DOMAIN by_model
        THEN [by_model EXCEPT ![model_type] = <<pos>> \o @]
        ELSE [t \in DOMAIN by_model \cup {model_type} |->
                 IF t = model_type THEN <<pos>> ELSE by_model[t]]

\* manager.py 35-38: append the instance at position pos to the type's list
IndexByModel(by_model, model_type, pos) ==
    IF model_type \in DOMAIN by_model
        THEN [by_model EXCEPT ![model_type] = Append(@, pos)]
        ELSE [t \in DOMAIN by_model \cup {model_type} |->
                 IF t = model_type THEN <<pos>> ELSE by_model[t]]

\* Only the classes with a determinable input type are kept.
RegisterClassTypedOnly(reg, cls) ==
    IF ~cls.ctor_ok \/ get_model_type(cls) = "None"
        THEN reg
        ELSE LET procs == Append(reg.processors, [cls |-> cls])
             IN [processors |-> procs,
                 by_model |-> IndexByModel(reg.by_model, get_model_type(cls), Len(procs)),
                 startups |-> [reg.startups EXCEPT ![cls.name] = @ + 1]]

\* manager.py 27-44: one pass of the loop body for class cls.
\* reg = [processors, by_model, startups]
RegisterClass(reg, cls) ==
    IF ~cls.ctor_ok
        THEN reg                       \* cls() raised: logged, nothing registered
        ELSE LET procs == Append(reg.processors, [cls |-> cls])
                 pos == Len(procs)
                 model_type == get_model_type(cls)
             IN [processors |-> procs,
                 by_model |-> IF model_type # "None"
                                  THEN IndexByModel(reg.by_model, model_type, pos)
                                  ELSE reg.by_model,
                 startups |-> [reg.startups EXCEPT ![cls.name] = @ + 1]]

\* The loop of load_all ended by the first on_startup that raises.
RECURSIVE RegisterFromAbort(_, _, _)
RegisterFromAbort(classes, i, reg) ==
    IF i > Len(classes) THEN reg
    ELSE IF classes[i].ctor_ok /\ ~classes[i].startup_ok THEN RegisterClass(reg, classes[i])
    ELSE RegisterFromAbort(classes, i + 1, RegisterClass(reg, classes[i]))

\* manager.py 27-44: the loop over the classes; the handler at 43-44 is
\* inside the loop, so it goes on after a class that failed.
RECURSIVE RegisterFrom(_, _, _)
RegisterFrom(classes, i, reg) ==
    IF i > Len(classes) THEN reg
    ELSE RegisterFrom(classes, i + 1, RegisterClass(reg, classes[i]))

ClassNames == UNION { { l[i].name : i \in DOMAIN l } : l \in ClassLists }

\* spec.loader.exec_module(module) (processors/__init__.py 86-88).
exec_module_ok(cls) == cls.name # "BrokenModule"

\* load_processors (processors/__init__.py 72-102): the classes found in the
\* files of the directory, in order.  Nothing catches what exec_module
\* raises, so one file that fails to import ends the walk.
load_processors(files) ==
    IF \E i \in DOMAIN files : ~exec_module_ok(files[i])
        THEN [raised |-> TRUE, classes |-> <<>>]
        ELSE [raised |-> FALSE, classes |-> files]

\* ProcessorManager.load_all (manager.py 24-44), called once by lifespan.
\* When load_processors raises, load_all raises at line 26 and lifespan
\* with it: the application does not start.
LoadAll ==
    /\ ~loaded
    /\ discovered = NoneVal
    /\ \E files \in ClassLists :
          LET found == load_processors(files)
              reg == RegisterFrom(found.classes, 1,
                        [processors |-> processors, by_model |-> processors_by_model,
                         startups |-> startup_calls])
          IN /\ processors' = reg.processors
             /\ processors_by_model' = reg.by_model
             /\ startup_calls' = reg.startups
             /\ discovered' = [files |-> files, raised |-> found.raised]
             /\ loaded' = ~found.raised
    /\ UNCHANGED <<lastOp, logVars, loopVars, tickVars, anaVars, cadVars>>

(***************************************************************************)
(* Interception: ProcessorSession                                          *)
(***************************************************************************)
\* What one call of a hook method may do: return None, raise, or return an
\* object made by the processor at position p.
Raise == [kind |-> "raise"]
HookResults(p) == {NoneVal, Raise} \cup { Entity(t, k, p) : t \in Types, k \in Ids }

\* Reconcile with the output contract not enforced: whatever the method
\* returns is taken as the substitute.
ReconcileUnchecked(output_type, post_instance, instance) ==
    IF post_instance = Raise THEN [kind |-> "raised"]
    ELSE IF post_instance = NoneVal
        THEN [kind |-> "return", val |-> IF output_type = "None" THEN instance ELSE NoneVal]
    ELSE [kind |-> "return", val |-> post_instance]

\* database.py 45-60: what becomes of one processor's return value.
\*   "return": _run_processor_hook returns val;  "raised" / "violation": an
\*   exception reaches the handler of line 59.
Reconcile(output_type, post_instance, instance) ==
    IF post_instance = Raise THEN [kind |-> "raised"]
    ELSE IF output_type = "None" /\ post_instance = NoneVal
        THEN [kind |-> "return", val |-> instance]
    ELSE IF post_instance # NoneVal /\ output_type = "None"
        THEN [kind |-> "violation"]
    ELSE IF post_instance = NoneVal /\ output_type # "None"
        THEN [kind |-> "return", val |-> NoneVal]
    ELSE IF ~isinstance(post_instance, output_type)
        THEN [kind |-> "violation"]
    ELSE [kind |-> "return", val |-> post_instance]

\* The handler of line 59 missing: the exception leaves the for loop and is
\* swallowed by the handler of line 64, so no later processor runs.
NextAfterErrorAbort(procs, i) == Len(procs) + 1

\* database.py 59-60: the exception is logged and the for loop goes on with
\* the processor after position i of the list.
NextAfterError(procs, i) == i + 1

\* database.py 42-60: the for loop over the processors of the type, from
\* position i of the list procs.  Each method call may do any of
\* HookResults; the operator yields every result the loop can end with.
\* calls: the hook invocations made, each with the processor, the entity it
\* was given, what it returned, how that was judged and the substitute it supplied
\* (NoneVal: none); errors: the processors logged at line 60.
RECURSIVE RunHooksFrom(_, _, _, _)
RunHooksFrom(procs, i, instance, acc) ==
    IF i > Len(procs)
        THEN {[ret |-> NoneVal, calls |-> acc.calls, errors |-> acc.errors]}
        ELSE LET p == procs[i]
                 output_type == get_output_type(processors[p].cls)
             IN UNION {
                  LET r == Reconcile(output_type, post_instance, instance)
                      calls == Append(acc.calls,
                                  [proc |-> p, arg |-> instance, returned |-> post_instance,
                                   outcome |-> r.kind,
                                   sub |-> IF r.kind = "return" /\ r.val # instance
                                               THEN r.val ELSE NoneVal])
                  IN IF r.kind = "return"
                         THEN {[ret |-> r.val, calls |-> calls, errors |-> acc.errors]}
                         ELSE RunHooksFrom(procs, NextAfterError(procs, i), instance,
                                  [calls |-> calls, errors |-> Append(acc.errors, p)])
                  : post_instance \in HookResults(p) }

\* database.py 33-65: the results a hook run can have.  model_type "None":
\* not given, type(instance) is used.
_run_processor_hook(method_name, instance, model_type) ==
    LET mt == IF model_type = "None" THEN TypeOf(instance) ELSE model_type
    IN { [method |-> method_name, model_type |-> mt, ret |-> h.ret,
          calls |-> h.calls, errors |-> h.errors]
         : h \in RunHooksFrom(get_processors(mt), 1, instance,
                              [calls |-> <<>>, errors |-> <<>>]) }

\* The entities a caller may hand to add / delete, or the store may return.
CallerEntities == { Entity(t, k, 0) : t \in Types, k \in Ids }

NoOp == [op |-> "none"]

\* The hook run's result ignored: the caller's entity is always used.
SubstitutedNever(instance, pp) == instance

\* database.py 19, 23, 30: `instance if not pp else pp`
Substituted(instance, pp) == IF ~Truthy(pp) THEN instance ELSE pp

\* ProcessorSession.add (database.py 17-19)
Add(instance) ==
    /\ loaded
    /\ lastOp = NoOp
    /\ \E pp \in _run_processor_hook("on_insert", instance, "None") :
          lastOp' = [op |-> "add", instance |-> instance, hook |-> pp,
                     primitive |-> Substituted(instance, pp.ret),
                     result |-> NoneVal]
    /\ UNCHANGED <<processors, processors_by_model, loaded, discovered, startup_calls,
                   logVars, loopVars, tickVars, anaVars, cadVars>>

\* ProcessorSession.delete (database.py 21-23)
Delete(instance) ==
    /\ loaded
    /\ lastOp = NoOp
    /\ \E pp \in _run_processor_hook("on_delete", instance, "None") :
          lastOp' = [op |-> "delete", instance |-> instance, hook |-> pp,
                     primitive |-> Substituted(instance, pp.ret),
                     result |-> NoneVal]
    /\ UNCHANGED <<processors, processors_by_model, loaded, discovered, startup_calls,
                   logVars, loopVars, tickVars, anaVars, cadVars>>

\* What Session.get(entity, ident) may find: nothing, or a row of that class
\* or of a subclass of it.
Found(entity, ident) ==
    {NoneVal} \cup { x \in CallerEntities : isinstance(x, entity) /\ x.id = ident }

NoHook == [method |-> "on_get", model_type |-> "None", ret |-> NoneVal,
           calls |-> <<>>, errors |-> <<>>]

\* ProcessorSession.get (database.py 25-30)
Get(entity, ident) ==
    /\ loaded
    /\ lastOp = NoOp
    /\ \E instance \in Found(entity, ident) :
          IF instance # NoneVal
              THEN \E pp \in _run_processor_hook("on_get", instance, entity) :
                      lastOp' = [op |-> "get", instance |-> instance, hook |-> pp,
                                 primitive |-> NoneVal,
                                 result |-> Substituted(instance, pp.ret)]
              ELSE lastOp' = [op |-> "get", instance |-> NoneVal, hook |-> NoHook,
                              primitive |-> NoneVal, result |-> NoneVal]
    /\ UNCHANGED <<processors, processors_by_model, loaded, discovered, startup_calls,
                   logVars, loopVars, tickVars, anaVars, cadVars>>

\* A store operation made during a tick: by a processor's hook through
\* self.session (processors/__init__.py 19-23) or by the scheduler when it
\* reconciles a periodic result (manager.py 108, 134-137).  Both sessions
\* are plain Session objects, whose add / delete / get run no hook.
TickStoreOp(by, method, instance) ==
    /\ loaded
    /\ lastOp = NoOp
    /\ processors # <<>>
    /\ lastOp' = [op |-> "plain", method |-> method, by |-> by, instance |-> instance,
                  primitive |-> IF method = "get" THEN NoneVal ELSE instance,
                  result |-> IF method = "get" THEN instance ELSE NoneVal]
    /\ UNCHANGED <<processors, processors_by_model, loaded, discovered, startup_calls,
                   logVars, loopVars, tickVars, anaVars, cadVars>>

\* get_session (database.py 72-74): the request ends and its session closes.
CloseSession ==
    /\ lastOp # NoOp
    /\ lastOp' = NoOp
    /\ UNCHANGED <<processors, processors_by_model, loaded, discovered, startup_calls,
                   logVars, loopVars, tickVars, anaVars, cadVars>>

(***************************************************************************)
(* Initial values of each part                                             *)
(***************************************************************************)
\* ProcessorManager.__new__ (manager.py 14-22), before load_all.
HookInit ==
    /\ processors = <<>>
    /\ processors_by_model = <<>>
    /\ loaded = FALSE
    /\ discovered = NoneVal
    /\ startup_calls = [n \in ClassNames |-> 0]
    /\ lastOp = NoOp

LogInit ==
    /\ logs = <<>>
    /\ clock = 0
    /\ inserted = <<>>

\* The scheduler part at rest (no task created).
LoopIdle ==
    /\ running = FALSE
    /\ sup = "none"
    /\ supCancel = FALSE
    /\ loop = <<>>
    /\ loopCancel = <<>>
    /\ thread = <<>>
    /\ session = <<>>
    /\ lifespan = "startup"
    /\ shutdown_calls = 0
    /\ on_shutdown_calls = <<>>
    /\ close_calls = <<>>
    /\ tick_after_shutdown = <<>>

\* The tick part at rest.
TickIdle ==
    /\ proc = UptimeProcessor
    /\ store = <<>>
    /\ tick = "idle"
    /\ results = <<>>
    /\ idx = 0
    /\ pending = <<>>
    /\ last_run = 0
    /\ now = 0
    /\ tickLog = NoOp

\* The cadence part at rest: no loop iteration made.
CadenceIdle ==
    cadence = [at |-> "none"]

\* The analytical part at rest: an agent with one container, nothing
\* recorded about either.
AnaIdle ==
    /\ wall = 1
    /\ agent = [heartbeat_interval |-> 30]
    /\ heartbeats = {}
    /\ alive_agent = NoneVal
    /\ container = [created_at |-> 1]
    /\ container_state = NoneVal
    /\ container_uptime = NoneVal
    /\ uptime_sections = <<>>
    /\ uptime_last_run = 0
    /\ ticks = 0

(***************************************************************************)
(* SpecHook: registry and interception                                     *)
(***************************************************************************)
InitHook == HookInit /\ LogInit /\ LoopIdle /\ TickIdle /\ AnaIdle /\ CadenceIdle

NextHook ==
    \/ LoadAll
    \/ \E instance \in CallerEntities : Add(instance)
    \/ \E instance \in CallerEntities : Delete(instance)
    \/ \E entity \in Types, ident \in Ids : Get(entity, ident)
    \/ \E method \in {"add", "delete", "get"}, instance \in CallerEntities :
          TickStoreOp("processor", method, instance)
    \/ \E instance \in CallerEntities : TickStoreOp("scheduler", "add", instance)
    \/ CloseSession

SpecHook == InitHook /\ [][NextHook]_vars


(***************************************************************************)
(* Claims on the interception (SpecHook)                                   *)
(***************************************************************************)
\* The last operation ran the hooks on an entity.
Intercepted == lastOp.op \in {"add", "delete", "get"} /\ lastOp.instance # NoneVal

\* x is an object made by the hook of processor p.
MadeBy(x, p) == x # NoneVal /\ x.by = p

\* The entity the operation went on with: the argument of the store
\* primitive (add, delete) or the value returned to the caller (get).
UsedEntity == IF lastOp.op = "get" THEN lastOp.result ELSE lastOp.primitive

\* The entity processor number i of the list should be given when every
\* processor passes its substitute on: the last substitute made before it.
RECURSIVE ChainedArg(_, _)
ChainedArg(calls, i) ==
    IF i = 1 THEN lastOp.instance
    ELSE IF calls[i - 1].sub # NoneVal THEN calls[i - 1].sub
    ELSE ChainedArg(calls, i - 1)

\* C1: one interception call (insert, get or delete) invokes the hook of
\* every processor registered for the entity's type, in registration order,
\* and each processor receives the entity as substituted by those before it.
C1_AllHooksInRegistrationOrder ==
    Intercepted =>
        LET procs == get_processors(lastOp.hook.model_type)
            calls == lastOp.hook.calls
        IN /\ Len(calls) = Len(procs)
           /\ \A i \in DOMAIN calls :
                 /\ calls[i].proc = procs[i]
                 /\ calls[i].arg = ChainedArg(calls, i)

NoneOutput(p) == get_output_type(processors[p].cls) \in {"None", "NoneType"}

\* C9: for a processor whose OutputType is none, a value returned by its
\* on-insert, on-get or on-delete hook is never passed to the store primitive
\* and never returned to the caller; the violation is logged and the entity
\* that flows on from that processor is the original one.
C9_NoneOutputValueRejected ==
    Intercepted =>
        LET calls == lastOp.hook.calls
        IN \A i \in DOMAIN calls :
              NoneOutput(calls[i].proc) =>
                  /\ ~MadeBy(lastOp.primitive, calls[i].proc)
                  /\ ~MadeBy(lastOp.result, calls[i].proc)
                  /\ calls[i].sub = NoneVal
                  /\ calls[i].outcome = "violation" =>
                        /\ \E e \in DOMAIN lastOp.hook.errors :
                              lastOp.hook.errors[e] = calls[i].proc
                        /\ i < Len(calls) => calls[i + 1].arg = lastOp.instance
                        /\ i = Len(calls) => UsedEntity = lastOp.instance

\* A none-output processor returned a value from its hook during an insert.
C9_Witness ==
    /\ Intercepted
    /\ lastOp.op = "add"
    /\ \E i \in DOMAIN lastOp.hook.calls :
          /\ NoneOutput(lastOp.hook.calls[i].proc)
          /\ lastOp.hook.calls[i].outcome = "violation"
          /\ i = Len(lastOp.hook.calls)
    /\ lastOp.primitive = lastOp.instance

\* C10: if a processor's incremental hook throws or violates the output
\* contract, the operation still completes: the fault is logged, the
\* original entity goes to the next processor registered for the type, and
\* when no later processor substitutes it, to the store primitive (or, for
\* get, back to the caller).
C10_FaultyHookDoesNotAbort ==
    Intercepted =>
        LET procs == get_processors(lastOp.hook.model_type)
            calls == lastOp.hook.calls
        IN /\ UsedEntity # NoneVal
           /\ \A i \in DOMAIN calls :
                 calls[i].outcome \in {"raised", "violation"} =>
                     /\ \E e \in DOMAIN lastOp.hook.errors :
                           lastOp.hook.errors[e] = calls[i].proc
                     /\ i < Len(procs) =>
                           /\ Len(calls) > i
                           /\ calls[i + 1].proc = procs[i + 1]
                           /\ calls[i + 1].arg = lastOp.instance
                     /\ i = Len(procs) => UsedEntity = lastOp.instance

\* A hook threw, the next processor of the type ran on the original entity
\* and the delete reached the store primitive.
C10_Witness ==
    /\ Intercepted
    /\ lastOp.op = "delete"
    /\ Len(lastOp.hook.calls) >= 2
    /\ lastOp.hook.calls[1].outcome = "raised"
    /\ lastOp.hook.calls[2].arg = lastOp.instance
    /\ lastOp.primitive # NoneVal


(***************************************************************************)
(* Log compressor: LogCompressorProcessor                                  *)
(***************************************************************************)
\* Messages are sequences of characters.
Digits == <<"0", "1", "2", "3", "4", "5", "6", "7", "8", "9">>
IsDigit(c) == \E d \in DOMAIN Digits : Digits[d] = c
DigitValue(c) == (CHOOSE d \in DOMAIN Digits : Digits[d] = c) - 1

\* int(s) of a non-empty sequence of digits.
RECURSIVE ParseInt(_)
ParseInt(s) ==
    IF s = <<>> THEN 0
    ELSE 10 * ParseInt(SubSeq(s, 1, Len(s) - 1)) + DigitValue(s[Len(s)])

\* str(n) for n >= 0.
RECURSIVE FormatInt(_)
FormatInt(n) ==
    IF n < 10 THEN <<Digits[n + 1]>>
    ELSE FormatInt(n \div 10) \o <<Digits[(n % 10) + 1]>>

\* Length of the longest suffix of s made of digits.
RECURSIVE TrailingDigits(_)
TrailingDigits(s) ==
    IF s # <<>> /\ IsDigit(s[Len(s)])
        THEN 1 + TrailingDigits(SubSeq(s, 1, Len(s) - 1))
        ELSE 0

\* re.search(r' x(\d+)$', message) (log_compressor.py 29): the position at
\* which the match starts, 0 when there is none.
MatchStart(message) ==
    LET n == TrailingDigits(message)
        at == Len(message) - n - 1
    IN IF n >= 1 /\ at >= 1 /\ message[at] = " " /\ message[at + 1] = "x"
           THEN at ELSE 0

\* log_compressor.py 29-35
LastMsgBase(message) ==
    IF MatchStart(message) > 0 THEN SubSeq(message, 1, MatchStart(message) - 1) ELSE message

RepeatCount(message) ==
    IF MatchStart(message) > 0
        THEN ParseInt(SubSeq(message, MatchStart(message) + 2, Len(message)))
        ELSE 1

\* log_compressor.py 40: f"{last_msg_base} x{new_count}"
WithCount(base, count) == base \o <<" ", "x">> \o FormatInt(count)

\* A Log object.  attached: object_session(log) is a session.
LogRow(id, container_id, timestamp, message, attached) ==
    [kind |-> "entity", type |-> "Log", id |-> id, container_id |-> container_id,
     timestamp |-> timestamp, message |-> message, attached |-> attached]

\* log_compressor.py 22-23: position in the table of the row of this
\* container with the greatest timestamp (the first such row), 0 when none.
LastLogOf(table, container_id) ==
    LET own == { i \in DOMAIN table : table[i].container_id = container_id }
    IN IF own = {} THEN 0
       ELSE CHOOSE i \in own :
               \A j \in own : \/ table[j].timestamp < table[i].timestamp
                              \/ (table[j].timestamp = table[i].timestamp /\ i <= j)

\* LogCompressorProcessor.on_insert (log_compressor.py 14-50): the value it
\* returns and the table as its session leaves it.
on_insert(log, table) ==
    IF ~log.attached
        THEN [ret |-> NoneVal, table |-> table]              \* lines 18-19
        ELSE LET last == LastLogOf(table, log.container_id)
             IN IF last # 0 /\ log.message = LastMsgBase(table[last].message)
                    THEN LET last_log ==
                                 [table[last] EXCEPT
                                     !.message = WithCount(LastMsgBase(table[last].message),
                                                           RepeatCount(table[last].message) + 1),
                                     !.timestamp = log.timestamp]
                         IN [ret |-> last_log,
                             table |-> [table EXCEPT ![last] = last_log]]
                    ELSE [ret |-> NoneVal, table |-> table]

\* A store in which a new object takes the place of the newest row.
StoreAddOverLast(table, x) ==
    IF table = <<>>
        THEN <<[x EXCEPT !.attached = TRUE]>>
        ELSE [table EXCEPT ![Len(table)] = [x EXCEPT !.attached = TRUE]]

\* Session.add followed by commit: a new object becomes a row; an object
\* that is already a row of the session stays that row.
StoreAdd(table, x) ==
    IF \E i \in DOMAIN table : table[i].id = x.id
        THEN table
        ELSE Append(table, [x EXCEPT !.attached = TRUE])

\* Containers that send log lines, and the messages they send.
Containers == {"c1", "c2"}
DiskFull == <<"d", "f">>
Started == <<"o", "k">>
Retry2 == <<"r", " ", "x", "2">>
Messages == {DiskFull, Started, Retry2}

\* Number of log lines inserted in a run of the model.
MaxInserts == 4

\* add_log_entry (agent.py 17-20) on the Log parsed from the request body,
\* then the route's session.commit() (agent.py 108-111).  ProcessorSession.add
\* runs LogCompressorProcessor.on_insert, the only processor of type Log.
InsertLog(container_id, message) ==
    /\ Len(inserted) < MaxInserts
    /\ LET log == LogRow(Len(inserted) + 1, container_id, clock + 1, message, FALSE)
           post == on_insert(log, logs)
           r == Reconcile(get_output_type(LogCompressorProcessor), post.ret, log)
           pp == IF r.kind = "return" THEN r.val ELSE NoneVal
       IN /\ logs' = StoreAdd(post.table, IF ~Truthy(pp) THEN log ELSE pp)
          /\ inserted' = Append(inserted, [container_id |-> container_id,
                                           message |-> message, timestamp |-> clock + 1])
    /\ clock' = clock + 1
    /\ UNCHANGED <<hookVars, loopVars, tickVars, anaVars, cadVars>>

\* The registry as load_all leaves it for the processors of the repository.
RepoClasses == <<HeartbeatProcessor, UptimeProcessor, LogCompressorProcessor>>
RepoRegistry ==
    RegisterFrom(RepoClasses, 1,
                 [processors |-> <<>>, by_model |-> <<>>,
                  startups |-> [n \in ClassNames |-> 0]])

InitLog ==
    /\ processors = RepoRegistry.processors
    /\ processors_by_model = RepoRegistry.by_model
    /\ startup_calls = RepoRegistry.startups
    /\ loaded = TRUE
    /\ discovered = [files |-> RepoClasses, raised |-> FALSE]
    /\ lastOp = NoOp
    /\ LogInit /\ LoopIdle /\ TickIdle /\ AnaIdle /\ CadenceIdle

NextLog == \E container_id \in Containers, message \in Messages : InsertLog(container_id, message)

SpecLog == InitLog /\ [][NextLog]_vars

(***************************************************************************)
(* Claims on the log compressor (SpecLog)                                  *)
(***************************************************************************)
\* The lines inserted for a container, oldest first.
RECURSIVE LinesOf(_, _)
LinesOf(h, container_id) ==
    IF h = <<>> THEN <<>>
    ELSE LET rest == LinesOf(SubSeq(h, 1, Len(h) - 1), container_id)
         IN IF h[Len(h)].container_id = container_id THEN Append(rest, h[Len(h)]) ELSE rest

\* Length of the run of equal messages that ends the sequence h.
RECURSIVE TrailingRun(_)
TrailingRun(h) ==
    IF Len(h) <= 1 THEN Len(h)
    ELSE IF h[Len(h)].message = h[Len(h) - 1].message
        THEN 1 + TrailingRun(SubSeq(h, 1, Len(h) - 1))
        ELSE 1

\* Number of maximal runs of equal messages in h.
RECURSIVE Runs(_)
Runs(h) ==
    IF Len(h) <= 1 THEN Len(h)
    ELSE Runs(SubSeq(h, 1, Len(h) - 1))
         + (IF h[Len(h)].message = h[Len(h) - 1].message THEN 0 ELSE 1)

RowsOf(container_id) == { i \in DOMAIN logs : logs[i].container_id = container_id }

\* C2: inserting the same message k >= 2 times in a row for a container
\* leaves exactly one stored row for that run, with message "<message> xk"
\* and the timestamp of the last insert; a different message afterwards
\* adds a second, distinct row (one row per run of equal messages).
C2_RepeatsCollapseToOneRow ==
    \A c \in Containers :
        LET h == LinesOf(inserted, c)
            k == TrailingRun(h)
        IN (h # <<>> /\ \A i \in DOMAIN h : MatchStart(h[i].message) = 0) =>
              /\ Cardinality(RowsOf(c)) = Runs(h)
              /\ k >= 2 =>
                    LET last == logs[LastLogOf(logs, c)]
                    IN /\ last.message = WithCount(h[Len(h)].message, k)
                       /\ last.timestamp = h[Len(h)].timestamp

\* The rows of the table that hold the line (container_id, message, timestamp).
RowsHolding(table, line) ==
    { i \in DOMAIN table : /\ table[i].container_id = line.container_id
                           /\ table[i].message = line.message
                           /\ table[i].timestamp = line.timestamp }

\* C33: an insert whose message differs from the base message (repeat
\* suffix " xN" stripped) of the most recent line of the same container
\* stores the new line unmodified and leaves that most recent line
\* unchanged; an insert for one container never modifies or removes a line
\* of another container.
C33_DifferentMessageStoredAsIs ==
    [][(Len(inserted') = Len(inserted) + 1) =>
          (LET new == inserted'[Len(inserted')]
               last == LastLogOf(logs, new.container_id)
           IN /\ (\A i \in DOMAIN logs :
                     (logs[i].container_id # new.container_id) =>
                         (i \in DOMAIN logs' /\ logs'[i] = logs[i]))
              /\ ((last # 0 /\ new.message # LastMsgBase(logs[last].message)) =>
                     (/\ Len(logs') = Len(logs) + 1
                      /\ RowsHolding(logs', new) = {Len(logs')}
                      /\ logs'[last] = logs[last])))]_vars

\* A line "r x2" stored after a line "r x2" of the same container (its base
\* is "r"), both rows kept, with a line of the other container in the table.
C33_Witness ==
    /\ Len(inserted) >= 3
    /\ LET new == inserted[Len(inserted)]
           before == SubSeq(logs, 1, Len(logs) - 1)
           last == LastLogOf(before, new.container_id)
       IN /\ Len(logs) = Len(inserted)
          /\ last # 0
          /\ before[last].message = Retry2
          /\ new.message = Retry2
          /\ new.message # LastMsgBase(before[last].message)
          /\ logs[Len(logs)].message = new.message
          /\ logs[Len(logs)].container_id = new.container_id
          /\ \E i \in DOMAIN before : before[i].container_id # new.container_id


(***************************************************************************)
(* Scheduler: supervisor, per-processor loops, worker threads, shutdown    *)
(***************************************************************************)
\* The processors load_all registered before the loops start.
LoopClasses == <<HeartbeatProcessor, UptimeProcessor>>
LoopRegistry ==
    RegisterFrom(LoopClasses, 1,
                 [processors |-> <<>>, by_model |-> <<>>,
                  startups |-> [n \in ClassNames |-> 0]])
Procs == DOMAIN LoopClasses

\* Calls of ProcessorManager.shutdown() in a run of the model.
MaxShutdownCalls == 2

\* The finally block cancelling no task.
CancelTasksNone == [p \in Procs |-> FALSE]

\* Task.cancel() on every task of self.tasks (manager.py 78-79): a task that
\* has finished ignores it.
CancelTasks == [p \in Procs |-> loop[p] # "done"]

\* One global loop instead of one loop per processor: a tick starts only
\* while no other tick is running.
MayStartTickSerial(p) ==
    /\ loop[p] \in {"created", "sleeping"}
    /\ ~loopCancel[p]
    /\ running
    /\ \A q \in Procs : thread[q] = "idle"

\* The tick handed to a thread without being awaited: the loop goes round
\* while the tick is still running.
MayStartTickUnawaited(p) ==
    /\ loop[p] \in {"created", "sleeping", "ticking"}
    /\ ~loopCancel[p]
    /\ running

\* manager.py 84, seen from the task of p: the while condition holds and
\* the task goes on to start a tick.
MayStartTick(p) ==
    /\ loop[p] \in {"created", "sleeping"}
    /\ ~loopCancel[p]
    /\ running

\* start_interval_loop up to its first await (manager.py 65-74): the task
\* created by lifespan begins to run.
SupStart ==
    /\ sup = "created"
    /\ ~supCancel
    /\ running' = TRUE
    /\ loop' = [p \in Procs |-> "created"]
    /\ sup' = "sleeping"
    /\ UNCHANGED <<supCancel, loopCancel, thread, session, lifespan, shutdown_calls,
                   on_shutdown_calls, close_calls, tick_after_shutdown>>
    /\ UNCHANGED <<hookVars, logVars, tickVars, anaVars, cadVars>>

\* A task cancelled before its first step never runs its body.
SupCancelledBeforeStart ==
    /\ sup = "created"
    /\ supCancel
    /\ sup' = "done"
    /\ supCancel' = FALSE
    /\ UNCHANGED <<running, loop, loopCancel, thread, session, lifespan, shutdown_calls,
                   on_shutdown_calls, close_calls, tick_after_shutdown>>
    /\ UNCHANGED <<hookVars, logVars, tickVars, anaVars, cadVars>>

\* manager.py 73-81: sleep(1) returns, running is false; or the sleep is
\* cancelled (75-76).  Either way the finally block cancels every task and
\* awaits gather.
SupLeaveLoop ==
    /\ sup = "sleeping"
    /\ supCancel \/ ~running
    /\ supCancel' = FALSE
    /\ loopCancel' = CancelTasks
    /\ sup' = "gathering"
    /\ UNCHANGED <<running, loop, thread, session, lifespan, shutdown_calls,
                   on_shutdown_calls, close_calls, tick_after_shutdown>>
    /\ UNCHANGED <<hookVars, logVars, tickVars, anaVars, cadVars>>

\* manager.py 80-81: gather returns once every task has finished; a cancel
\* of the supervisor while it waits ends the wait at once.
SupGatherDone ==
    /\ sup = "gathering"
    /\ supCancel \/ \A p \in Procs : loop[p] = "done"
    /\ supCancel' = FALSE
    /\ sup' = "done"
    /\ UNCHANGED <<running, loop, loopCancel, thread, session, lifespan, shutdown_calls,
                   on_shutdown_calls, close_calls, tick_after_shutdown>>
    /\ UNCHANGED <<hookVars, logVars, tickVars, anaVars, cadVars>>

\* manager.py 84-88: the while condition holds; the tick is handed to a
\* worker thread and the task awaits it.
LoopStartTick(p) ==
    /\ MayStartTick(p)
    /\ loop' = [loop EXCEPT ![p] = "ticking"]
    /\ thread' = [thread EXCEPT ![p] = "started"]
    /\ tick_after_shutdown' = [tick_after_shutdown EXCEPT ![p] = @ \/ shutdown_calls > 0]
    /\ UNCHANGED <<running, sup, supCancel, loopCancel, session, lifespan, shutdown_calls,
                   on_shutdown_calls, close_calls>>
    /\ UNCHANGED <<hookVars, logVars, tickVars, anaVars, cadVars>>

\* manager.py 84: the while condition fails and the task returns.
LoopExit(p) ==
    /\ loop[p] \in {"created", "sleeping"}
    /\ ~loopCancel[p]
    /\ ~running
    /\ loop' = [loop EXCEPT ![p] = "done"]
    /\ UNCHANGED <<running, sup, supCancel, loopCancel, thread, session, lifespan,
                   shutdown_calls, on_shutdown_calls, close_calls, tick_after_shutdown>>
    /\ UNCHANGED <<hookVars, logVars, tickVars, anaVars, cadVars>>

\* manager.py 88-97: the awaited tick has returned; sleep_time is at least
\* 0.1, so the task sleeps.
LoopTickReturned(p) ==
    /\ loop[p] = "ticking"
    /\ thread[p] = "idle"
    /\ ~loopCancel[p]
    /\ loop' = [loop EXCEPT ![p] = "sleeping"]
    /\ UNCHANGED <<running, sup, supCancel, loopCancel, thread, session, lifespan,
                   shutdown_calls, on_shutdown_calls, close_calls, tick_after_shutdown>>
    /\ UNCHANGED <<hookVars, logVars, tickVars, anaVars, cadVars>>

\* CancelledError reaches the task: before its first step, in the sleep
\* (manager.py 98-99, break) or at the await of to_thread (line 88), where
\* `except Exception` does not catch it.  The task ends; a worker thread that
\* is running the tick is not interrupted.
LoopCancelled(p) ==
    /\ loop[p] \in {"created", "sleeping", "ticking"}
    /\ loopCancel[p]
    /\ loop' = [loop EXCEPT ![p] = "done"]
    /\ loopCancel' = [loopCancel EXCEPT ![p] = FALSE]
    /\ UNCHANGED <<running, sup, supCancel, thread, session, lifespan,
                   shutdown_calls, on_shutdown_calls, close_calls, tick_after_shutdown>>
    /\ UNCHANGED <<hookVars, logVars, tickVars, anaVars, cadVars>>

\* The worker thread inside _execute_processor_interval: a hook reads
\* self.session, which opens the session when there is none
\* (processors/__init__.py 19-23).
TickWork(p) ==
    /\ thread[p] = "started"
    /\ thread' = [thread EXCEPT ![p] = "working"]
    /\ session' = [session EXCEPT ![p] = "open"]
    /\ UNCHANGED <<running, sup, supCancel, loop, loopCancel, lifespan,
                   shutdown_calls, on_shutdown_calls, close_calls, tick_after_shutdown>>
    /\ UNCHANGED <<hookVars, logVars, tickVars, anaVars, cadVars>>

\* _execute_processor_interval returns (manager.py 101-144): normally, or
\* after its handler logged what a hook raised.
TickFinish(p) ==
    /\ thread[p] \in {"started", "working"}
    /\ thread' = [thread EXCEPT ![p] = "idle"]
    /\ UNCHANGED <<running, sup, supCancel, loop, loopCancel, session, lifespan,
                   shutdown_calls, on_shutdown_calls, close_calls, tick_after_shutdown>>
    /\ UNCHANGED <<hookVars, logVars, tickVars, anaVars, cadVars>>

\* ProcessorManager.shutdown (manager.py 146-153).  raised: the processors
\* whose on_shutdown raises, for which close() is skipped.
ShutdownBody(raised) ==
    /\ running' = FALSE
    /\ shutdown_calls' = shutdown_calls + 1
    /\ on_shutdown_calls' = [p \in Procs |-> on_shutdown_calls[p] + 1]
    /\ close_calls' = [p \in Procs |->
                          IF p \in raised THEN close_calls[p] ELSE close_calls[p] + 1]
    /\ session' = [p \in Procs |-> IF p \in raised THEN session[p] ELSE "closed"]

\* shutdown() called through the lifecycle interface.
Shutdown ==
    /\ shutdown_calls < MaxShutdownCalls
    /\ \E raised \in SUBSET Procs : ShutdownBody(raised)
    /\ UNCHANGED <<sup, supCancel, loop, loopCancel, thread, lifespan, tick_after_shutdown>>
    /\ UNCHANGED <<hookVars, logVars, tickVars, anaVars, cadVars>>

\* lifespan after the yield (main.py 32-35): manager.shutdown(), then
\* task.cancel(), then await task.
LifespanCleanup ==
    /\ lifespan = "serving"
    /\ shutdown_calls < MaxShutdownCalls
    /\ \E raised \in SUBSET Procs : ShutdownBody(raised)
    /\ supCancel' = (sup # "done")
    /\ lifespan' = "awaiting"
    /\ UNCHANGED <<sup, loop, loopCancel, thread, tick_after_shutdown>>
    /\ UNCHANGED <<hookVars, logVars, tickVars, anaVars, cadVars>>

\* main.py 35-38: the awaited supervisor task has finished.
LifespanExit ==
    /\ lifespan = "awaiting"
    /\ sup = "done"
    /\ lifespan' = "exited"
    /\ UNCHANGED <<running, sup, supCancel, loop, loopCancel, thread, session,
                   shutdown_calls, on_shutdown_calls, close_calls, tick_after_shutdown>>
    /\ UNCHANGED <<hookVars, logVars, tickVars, anaVars, cadVars>>

\* lifespan up to its yield (main.py 20-30): processors loaded, the
\* supervisor task created and not yet run.
InitLoop ==
    /\ processors = LoopRegistry.processors
    /\ processors_by_model = LoopRegistry.by_model
    /\ startup_calls = LoopRegistry.startups
    /\ loaded = TRUE
    /\ discovered = [files |-> LoopClasses, raised |-> FALSE]
    /\ lastOp = NoOp
    /\ LogInit /\ TickIdle /\ AnaIdle /\ CadenceIdle
    /\ running = FALSE
    /\ sup = "created"
    /\ supCancel = FALSE
    /\ loop = [p \in Procs |-> "none"]
    /\ loopCancel = [p \in Procs |-> FALSE]
    /\ thread = [p \in Procs |-> "idle"]
    /\ session = [p \in Procs |-> "closed"]
    /\ lifespan = "serving"
    /\ shutdown_calls = 0
    /\ on_shutdown_calls = [p \in Procs |-> 0]
    /\ close_calls = [p \in Procs |-> 0]
    /\ tick_after_shutdown = [p \in Procs |-> FALSE]

NextLoop ==
    \/ SupStart
    \/ SupCancelledBeforeStart
    \/ SupLeaveLoop
    \/ SupGatherDone
    \/ \E p \in Procs : LoopStartTick(p)
    \/ \E p \in Procs : LoopExit(p)
    \/ \E p \in Procs : LoopTickReturned(p)
    \/ \E p \in Procs : LoopCancelled(p)
    \/ \E p \in Procs : TickWork(p)
    \/ \E p \in Procs : TickFinish(p)
    \/ Shutdown
    \/ LifespanCleanup
    \/ LifespanExit

SpecLoop == InitLoop /\ [][NextLoop]_vars


\* The processor whose hooks misbehave: its tick may raise, or never return.
Stalls(p) == processors[p].cls.name = "HeartbeatProcessor"
Healthy == { p \in Procs : LoopClasses[p].name # "HeartbeatProcessor" }

\* The event loop runs every task that is ready, and the thread pool runs
\* every tick to its end unless the tick's own hook stalls.  Nothing obliges
\* anyone to call shutdown.
FairLoop ==
    /\ InitLoop /\ [][NextLoop]_vars
    /\ WF_vars(SupStart) /\ WF_vars(SupCancelledBeforeStart)
    /\ WF_vars(SupLeaveLoop) /\ WF_vars(SupGatherDone) /\ WF_vars(LifespanExit)
    /\ \A p \in Procs : /\ WF_vars(LoopStartTick(p)) /\ WF_vars(LoopExit(p))
                        /\ WF_vars(LoopTickReturned(p)) /\ WF_vars(LoopCancelled(p))
    /\ \A p \in Healthy : WF_vars(TickWork(p)) /\ WF_vars(TickFinish(p))

(***************************************************************************)
(* Claims on the scheduler (SpecLoop, FairLoop)                            *)
(***************************************************************************)
\* C3: after lifespan has called shutdown, a processor's loop has exited only
\* if its in-flight tick has completed, and the supervisor
\* (start_interval_loop) has finished only if every per-processor loop has
\* finished and no tick is still running.
C3_LoopsExitAfterTheirTick ==
    (shutdown_calls = 1 /\ lifespan # "serving") =>
        /\ \A p \in Procs : loop[p] = "done" => thread[p] = "idle"
        /\ sup = "done" => \A p \in Procs : loop[p] \in {"none", "done"} /\ thread[p] = "idle"

\* C4: once shutdown() has been called no processor starts a new tick, in
\* any interleaving of shutdown() with start_interval_loop and the loops.
C4_NoTickStartsAfterShutdown ==
    \A p \in Procs : ~tick_after_shutdown[p]

\* C5: however many times shutdown() is called, each processor's
\* on_shutdown hook and session close are invoked exactly once (stated for
\* the runs in which no on_shutdown hook raised).
C5_ShutdownIdempotent ==
    (shutdown_calls >= 1 /\ \A p \in Procs : close_calls[p] = on_shutdown_calls[p]) =>
        \A p \in Procs : on_shutdown_calls[p] = 1 /\ close_calls[p] = 1

\* C6: a processor whose tick raises or stalls on every tick neither delays
\* nor stops another processor's ticks: every other processor that waits
\* for its next tick starts it (or stops because of a shutdown), each of
\* its ticks returns to the wait, and no loop, the faulty processor's
\* included, ends unless shutdown was called.
C6_LoopsAreIndependent ==
    /\ [](\A p \in Procs : loop[p] = "done" => shutdown_calls > 0)
    /\ \A q \in Healthy :
          /\ (loop[q] \in {"created", "sleeping"}) ~> (loop[q] \in {"ticking", "done"})
          /\ (loop[q] = "ticking") ~> (loop[q] \in {"sleeping", "done"})

\* The faulty processor's tick is stuck in its worker thread while another
\* processor starts a tick of its own.
C6_Witness ==
    \E p \in Procs, q \in Procs :
        /\ Stalls(p) /\ ~Stalls(q)
        /\ loop[p] = "ticking" /\ thread[p] = "working"
        /\ loop[q] = "ticking" /\ thread[q] = "started"
        /\ shutdown_calls = 0


(***************************************************************************)
(* SpecTick: one processor's tick against the store                        *)
(*           (ProcessorManager._execute_processor_interval)                *)
(***************************************************************************)
\* Ticks of the processor in a run of the model.
MaxTicks == 2

\* A primary key left at its default None (models/agents.py: id = None).
NoKey == 0

\* The processor classes a tick is run for: same input and output type,
\* different types, no usable output type, no generic arguments.
TickClasses ==
    {LogCompressorProcessor, LogToContainer, LogTagger, LogAudit, Untyped, UptimeProcessor}

\* Tables the tick reads and writes.
TickTypes == {"Log", "Container"}

\* Rows committed by the routes before the tick runs (by = 0).
InitialStores ==
    { <<>>,
      <<Entity("Log", 1, 0)>>,
      <<Entity("Log", 1, 0), Entity("Log", 2, 0)>>,
      <<Entity("Log", 1, 0), Entity("Container", 1, 0)>>,
      <<Entity("Container", 2, 0), Entity("Log", 2, 0), Entity("Log", 1, 0)>> }

\* What on_interval_each may do for a row in tick n: return None, raise, or
\* return a model instance (with or without a key); by = n marks the value.
on_interval_each(item, n) ==
    {NoneVal, Raise} \cup { Entity(t, k, n) : t \in TickTypes, k \in Ids \cup {NoKey} }

\* Only the first row fetched (.first() in place of .all()).
SelectFirst(st, model_type) ==
    LET rows == SelectSeq(st, LAMBDA r : TypeOf(r) = model_type)
    IN IF rows = <<>> THEN <<>> ELSE <<rows[1]>>

\* session.exec(select(model_type)).all() (manager.py 109-110)
Select(st, model_type) == SelectSeq(st, LAMBDA r : TypeOf(r) = model_type)

\* A row with the identity (type, primary key) of v is stored.
HasRow(st, v) == \E i \in DOMAIN st : st[i].type = v.type /\ st[i].id = v.id

\* session.merge (manager.py 134): the row with the value's identity takes
\* the value's state; a value without a stored row is inserted.
MergeRow(st, v) ==
    IF HasRow(st, v)
        THEN [i \in DOMAIN st |->
                 IF st[i].type = v.type /\ st[i].id = v.id THEN v ELSE st[i]]
        ELSE Append(st, v)

\* The staged writes reach the database in order (the session's flush): an
\* INSERT without a key, or of a key that is already stored, is rejected.
RECURSIVE Flush(_, _, _)
Flush(st, pend, i) ==
    IF i > Len(pend) THEN [ok |-> TRUE, rows |-> st]
    ELSE LET w == pend[i]
         IN IF w.value.id = NoKey THEN [ok |-> FALSE, rows |-> st]
            ELSE IF w.how = "merge" THEN Flush(MergeRow(st, w.value), pend, i + 1)
            ELSE IF HasRow(st, w.value) THEN [ok |-> FALSE, rows |-> st]
            ELSE Flush(Append(st, w.value), pend, i + 1)

\* Every row's write committed as soon as it is reconciled.
VisibleEager(st, staged) == Flush(st, staged, 1).rows

\* What the other sessions see after the tick's session has staged a write
\* (manager.py 108, 134-137): the committed rows, until session.commit().
Visible(st, staged) == st

\* Always session.add, whatever the types.
UseMergeNever(input_type, output_type) == FALSE

\* manager.py 132: `if input_type == output_type`
UseMerge(input_type, output_type) == input_type = output_type

\* manager.py 114-137 for one row: what the loop body does with the hook's
\* result.  st: the committed rows; pend: the writes staged so far.
\* raised: an exception leaves the loop; staged: the write added to the session.
ReconcileEach(cls, processed_item, st, pend) ==
    LET output_type == get_output_type(cls)
        input_type == get_model_type(cls)
        raised == [raised |-> TRUE, staged |-> <<>>]
    IN IF processed_item = Raise THEN raised                          \* line 114
       ELSE IF ~Truthy(processed_item)
           THEN [raised |-> FALSE, staged |-> <<>>]                   \* 116-117
       ELSE IF output_type = "None" THEN raised                       \* 121-122
       ELSE IF ~isinstance(processed_item, output_type) THEN raised   \* 124-125
       ELSE IF input_type = "None" THEN raised                        \* 129-130
       ELSE IF UseMerge(input_type, output_type)
           THEN \* merge flushes what is staged before it loads the row
                IF ~Flush(st, pend, 1).ok THEN raised
                ELSE [raised |-> FALSE,
                      staged |-> <<[how |-> "merge", value |-> processed_item]>>]
       ELSE [raised |-> FALSE,
             staged |-> <<[how |-> "add", value |-> processed_item]>>]

\* _last_run set whether or not the tick raised.
LastRunAlways(raised, previous, t) == t

\* manager.py 140-144: setattr(processor, "_last_run", ...) is the last
\* statement of the try block, so an exception anywhere before it skips it.
LastRunAfterTick(raised, previous, t) == IF raised THEN previous ELSE t

\* The record kept of a tick: its number, the rows committed when it began,
\* the on_interval calls made (one, at line 103, before anything else), the
\* rows fetched, the on_interval_each calls made, what the last of them
\* returned, the values reconciled, its end.
TickRecord(n, before, rows, calls, returned, outcome) ==
    [op |-> "tick", n |-> n, before |-> before, on_interval |-> 1, rows |-> rows,
     calls |-> calls, last |-> NoneVal, returned |-> returned, outcome |-> outcome]

\* _execute_processor_interval up to the per-row pass (manager.py 102-110).
\* on_interval or the row fetch may raise: the handler at 140-144 logs it and
\* the tick ends.
TickStart(interval_raises) ==
    /\ tick = "idle"
    /\ now < MaxTicks
    /\ now' = now + 1
    /\ LET model_type == get_model_type(proc)
       IN IF interval_raises
              THEN /\ tickLog' = TickRecord(now', store, 0, 0, <<>>, "failed")
                   /\ last_run' = LastRunAfterTick(TRUE, last_run, now')
                   /\ UNCHANGED <<tick, results, idx>>
          ELSE IF model_type = "None"
              THEN /\ last_run' = LastRunAfterTick(FALSE, last_run, now')
                   /\ tickLog' = TickRecord(now', store, 0, 0, <<>>, "ok")
                   /\ UNCHANGED <<tick, results, idx>>
          ELSE /\ results' = Select(store, model_type)
               /\ idx' = 1
               /\ tick' = "each"
               /\ tickLog' = TickRecord(now', store, Len(results'), 0, <<>>, "running")
               /\ UNCHANGED last_run
    /\ UNCHANGED <<proc, store, pending>>
    /\ UNCHANGED <<hookVars, logVars, loopVars, anaVars, cadVars>>

\* One pass of the for loop (manager.py 111-137).  An exception closes the
\* session, which rolls back what was staged (108), and is logged (143-144).
TickEach ==
    /\ tick = "each"
    /\ idx <= Len(results)
    /\ \E processed_item \in on_interval_each(results[idx], now) :
          LET step == ReconcileEach(proc, processed_item, store, pending)
          IN IF step.raised
                 THEN /\ tick' = "idle"
                      /\ pending' = <<>>
                      /\ results' = <<>>
                      /\ idx' = 0
                      /\ store' = store
                      /\ last_run' = LastRunAfterTick(TRUE, last_run, now)
                      /\ tickLog' = [tickLog EXCEPT !.calls = @ + 1, !.last = processed_item,
                                                    !.outcome = "failed"]
                 ELSE /\ pending' = pending \o step.staged
                      /\ idx' = idx + 1
                      /\ store' = Visible(store, step.staged)
                      /\ tickLog' = [tickLog EXCEPT !.calls = @ + 1, !.last = processed_item,
                                                    !.returned = @ \o [i \in DOMAIN step.staged |-> step.staged[i].value]]
                      /\ UNCHANGED <<tick, results, last_run>>
    /\ UNCHANGED <<proc, now>>
    /\ UNCHANGED <<hookVars, logVars, loopVars, anaVars, cadVars>>

\* session.commit() after the last row, then _last_run (manager.py 138-142).
\* A rejected write raises out of commit: rolled back and logged.
TickCommit ==
    /\ tick = "each"
    /\ idx > Len(results)
    /\ LET flushed == Flush(store, pending, 1)
       IN IF flushed.ok
              THEN /\ store' = flushed.rows
                   /\ last_run' = LastRunAfterTick(FALSE, last_run, now)
                   /\ tickLog' = [tickLog EXCEPT !.outcome = "ok"]
              ELSE /\ tickLog' = [tickLog EXCEPT !.outcome = "rejected"]
                   /\ last_run' = LastRunAfterTick(TRUE, last_run, now)
                   /\ UNCHANGED store
    /\ tick' = "idle"
    /\ pending' = <<>>
    /\ results' = <<>>
    /\ idx' = 0
    /\ UNCHANGED <<proc, now>>
    /\ UNCHANGED <<hookVars, logVars, loopVars, anaVars, cadVars>>

\* A loaded processor, rows committed by the routes, no tick run yet.
InitTick ==
    /\ HookInit /\ LogInit /\ LoopIdle /\ AnaIdle /\ CadenceIdle
    /\ proc \in TickClasses
    /\ store \in InitialStores
    /\ tick = "idle"
    /\ results = <<>>
    /\ idx = 0
    /\ pending = <<>>
    /\ last_run = 0
    /\ now = 0
    /\ tickLog = NoOp

NextTick ==
    \/ \E interval_raises \in BOOLEAN : TickStart(interval_raises)
    \/ TickEach
    \/ TickCommit

SpecTick == InitTick /\ [][NextTick]_vars

(***************************************************************************)
(* Claims on the tick (SpecTick)                                           *)
(***************************************************************************)
\* The values of a sequence.
Range(f) == { f[i] : i \in DOMAIN f }

\* Rows of st with the identity of v.
KeyCount(st, v) == Cardinality({ i \in DOMAIN st : st[i].type = v.type /\ st[i].id = v.id })

\* C7: the writes reconciled from on_interval_each results become visible
\* all together in one commit after the last row, or not at all: while the
\* per-row pass runs the committed rows are those of the tick's start; a
\* tick in which a hook raised or broke the output contract (or whose commit
\* was rejected) leaves them as they were, with nothing staged, and no row's
\* hook is called again; a committed tick shows every reconciled value.
C7_TickWritesAllOrNothing ==
    tickLog # NoOp =>
        /\ tick = "each" => store = tickLog.before /\ tickLog.outcome = "running"
        /\ (tick = "idle" /\ tickLog.outcome \in {"failed", "rejected"}) =>
              /\ store = tickLog.before
              /\ pending = <<>>
              /\ tickLog.calls <= tickLog.rows
              /\ last_run # tickLog.n
        /\ (tick = "idle" /\ tickLog.outcome = "ok") =>
              /\ Range(tickLog.returned) \subseteq Range(store)
              /\ Range(store) \subseteq Range(tickLog.before) \cup Range(tickLog.returned)
              /\ tickLog.calls = tickLog.rows

\* A tick that reconciled a write and then failed at a later row.
C7_Witness ==
    /\ tickLog # NoOp
    /\ tick = "idle"
    /\ tickLog.outcome = "failed"
    /\ Len(tickLog.returned) >= 1
    /\ tickLog.calls = 2

\* Every returned value has a key, no two the same, none stored before.
Fresh(before, returned) ==
    /\ \A i \in DOMAIN returned : returned[i].id # NoKey /\ ~HasRow(before, returned[i])
    /\ \A i, j \in DOMAIN returned : KeyCount(<<returned[i]>>, returned[j]) = 1 => i = j

C11_LastRunOnlyAfterCleanTick ==
    /\ []((tickLog # NoOp /\ tickLog.outcome \in {"failed", "rejected"} /\ now < MaxTicks)
              => ENABLED TickStart(FALSE))
    /\ [][((tickLog' # tickLog /\ tickLog'.outcome \in {"failed", "rejected"})
              => (last_run' = last_run /\ tick' = "idle"))
          /\ ((last_run' # last_run)
              => (tickLog'.outcome = "ok" /\ tick' = "idle" /\ last_run' = now'))]_vars

\* The second tick failed and _last_run is still the time of the first.
C11_Witness ==
    /\ tickLog # NoOp
    /\ tickLog.n = 2
    /\ tickLog.outcome \in {"failed", "rejected"}
    /\ last_run = 1

\* The number of rows of type t among the rows st.
CountOfType(st, t) == Cardinality({ i \in DOMAIN st : TypeOf(st[i]) = t })

\* on_interval (or the row fetch) raised in the last tick: the tick failed
\* before any on_interval_each call.
IntervalRaised == tickLog.outcome = "failed" /\ tickLog.calls = 0

MaxWall == 3
MaxUptimeTicks == 3

\* Statuses the agent reports for a container.
Statuses == {"running", "exited"}

\* ContainerUptime(container_id, uptime_seconds, first_recorded); the
\* derived uptime_percentage is left out.
ContainerUptime(uptime_seconds, first_recorded) ==
    [uptime_seconds |-> uptime_seconds, first_recorded |-> first_recorded]

\* end_time of a section that is still open (None).
NoEnd == 0

\* UptimeSection(container_id, start_time, end_time, state)
UptimeSection(start_time, end_time, state) ==
    [start_time |-> start_time, end_time |-> end_time, state |-> state]

\* uptime.py 92-94: the fix for overcounting.
Clamp(uptime_seconds, total_time) ==
    IF total_time > 0 /\ uptime_seconds > total_time THEN total_time ELSE uptime_seconds

\* uptime.py 73-100: the ContainerUptime row on_interval_each stores.
\* state: the ContainerState row or None; record: the stored row or None;
\* _last_run: self._last_run, 0 when not set; t: time().
UptimeAfter(state, record, created_at, _last_run, t) ==
    LET uptime_record == IF record = NoneVal THEN ContainerUptime(0, created_at) ELSE record
        counted == IF state # NoneVal /\ state.status = "running" /\ _last_run # 0   \* 82-85
                       THEN uptime_record.uptime_seconds + (t - _last_run)
                       ELSE uptime_record.uptime_seconds
        total_time == t - uptime_record.first_recorded
    IN ContainerUptime(Clamp(counted, total_time), uptime_record.first_recorded)

\* uptime.py 102-105: the sections that may be `last_section`: the ones
\* with the latest start_time (the query does not order ties).
LastSections(secs) ==
    { i \in DOMAIN secs : \A j \in DOMAIN secs : secs[j].start_time <= secs[i].start_time }

\* uptime.py 106-121 with section i as last_section (0: there is none).
SectionsAfter(secs, i, state, t) ==
    LET observed == IF state = NoneVal THEN "unknown" ELSE state.status
    IN IF i # 0 /\ secs[i].state = observed THEN secs
       ELSE LET closed == IF i # 0 /\ secs[i].end_time = NoEnd
                              THEN [secs EXCEPT ![i].end_time = t]
                              ELSE secs
            IN Append(closed, UptimeSection(t, NoEnd, observed))

\* time() moves on.
AdvanceWall(limit) ==
    /\ wall < limit
    /\ wall' = wall + 1
    /\ UNCHANGED <<agent, heartbeats, alive_agent, container, container_state,
                   container_uptime, uptime_sections, uptime_last_run, ticks>>
    /\ UNCHANGED <<hookVars, logVars, loopVars, tickVars, cadVars>>

\* The agent registers the container (routes/agent.py); created_at is the
\* agent's own clock reading.
RegisterContainer(created_at) ==
    /\ container = NoneVal
    /\ container' = [created_at |-> created_at]
    /\ UNCHANGED <<wall, agent, heartbeats, alive_agent, container_state,
                   container_uptime, uptime_sections, uptime_last_run, ticks>>
    /\ UNCHANGED <<hookVars, logVars, loopVars, tickVars, cadVars>>

\* The agent reports the container's status (routes/agent.py).
ReportStatus(status) ==
    /\ container # NoneVal
    /\ container_state # [status |-> status]
    /\ container_state' = [status |-> status]
    /\ UNCHANGED <<wall, agent, heartbeats, alive_agent, container,
                   container_uptime, uptime_sections, uptime_last_run, ticks>>
    /\ UNCHANGED <<hookVars, logVars, loopVars, tickVars, cadVars>>

\* One tick of the uptime processor: _execute_processor_interval
\* (manager.py 101-144) calling on_interval_each for the container
\* (uptime.py 72-123), which commits through the processor's own session.
\* outcome "ok": the tick completes and _last_run is set; "raised_before":
\* the hook raises before its commit; "raised_after": something raises
\* after the container's row was committed (a later row's hook).
UptimeTick(outcome) ==
    /\ ticks < MaxUptimeTicks
    /\ ticks' = ticks + 1
    /\ IF container = NoneVal \/ outcome = "raised_before"
           THEN UNCHANGED <<container_uptime, uptime_sections>>
           ELSE /\ container_uptime' = UptimeAfter(container_state, container_uptime,
                                                   container.created_at, uptime_last_run, wall)
                /\ \E i \in (IF uptime_sections = <<>> THEN {0} ELSE LastSections(uptime_sections)) :
                      uptime_sections' = SectionsAfter(uptime_sections, i, container_state, wall)
    /\ uptime_last_run' = LastRunAfterTick(outcome # "ok", uptime_last_run, wall)
    /\ UNCHANGED <<wall, agent, heartbeats, alive_agent, container, container_state>>
    /\ UNCHANGED <<hookVars, logVars, loopVars, tickVars, cadVars>>

\* The processors are loaded; no container is registered yet.
InitUptime ==
    /\ HookInit /\ LogInit /\ LoopIdle /\ TickIdle /\ CadenceIdle
    /\ wall = 1
    /\ agent = [heartbeat_interval |-> 30]
    /\ heartbeats = {}
    /\ alive_agent = NoneVal
    /\ container = NoneVal
    /\ container_state = NoneVal
    /\ container_uptime = NoneVal
    /\ uptime_sections = <<>>
    /\ uptime_last_run = 0
    /\ ticks = 0

NextUptime ==
    \/ AdvanceWall(MaxWall)
    \/ \E created_at \in {wall - 1, wall, wall + 1} \cap Nat : RegisterContainer(created_at)
    \/ \E status \in Statuses : ReportStatus(status)
    \/ \E outcome \in {"ok", "raised_before", "raised_after"} : UptimeTick(outcome)

SpecUptime == InitUptime /\ [][NextUptime]_vars

\* C12: after every uptime tick, however the status flaps and whichever
\* ticks fail, and for any first_recorded (also one at or after the current
\* time), the stored uptime_seconds does not exceed now - first_recorded
\* (read as 0 when first_recorded is not in the past).
C12_UptimeWithinLifetime ==
    container_uptime # NoneVal =>
        container_uptime.uptime_seconds <=
            (IF wall > container_uptime.first_recorded
                 THEN wall - container_uptime.first_recorded ELSE 0)

(***************************************************************************)
(* SpecHeartbeat: the heartbeat processor's liveness passes for one agent  *)
(*                (processors/analytical/heartbeat.py)                     *)
(***************************************************************************)
\* Last second of the wall clock, heartbeats received and liveness passes
\* in a run.
MaxTime == 65
MaxHeartbeats == 2
MaxPasses == 2

\* Agent.heartbeat_interval values of the model, in seconds.
HeartbeatIntervals == {1, 30}

\* Times are compared in hundredths so that the 5% leniency stays exact:
\* both sides of the comparison of heartbeat.py 63 carry the same factor
\* (the code's is 10**9, the timestamps being nanoseconds).
Scale == 100

\* The threshold without the leniency.
time_threshold_strict(current_time, heartbeat_interval) ==
    current_time * Scale - (heartbeat_interval * 2) * Scale

\* heartbeat.py 56-59: current_time - (iv * leniency), iv = 2 * interval,
\* leniency = 1.05; scaled.
time_threshold(current_time, heartbeat_interval) ==
    current_time * Scale - (heartbeat_interval * 2) * 105

\* heartbeat.py 60-65: the agent's heartbeats not older than the threshold.
RecentHeartbeats(hbs, current_time, heartbeat_interval) ==
    { ts \in hbs : ts * Scale >= time_threshold(current_time, heartbeat_interval) }

\* heartbeat.py 67-80: the AliveAgent row after the pass.
AliveAfter(active, recent) ==
    IF active = NoneVal
        THEN [state |-> IF recent # {} THEN "active" ELSE "inactive"]
    ELSE IF recent # {} /\ active.state = "inactive" THEN [state |-> "active"]
    ELSE IF recent = {} /\ active.state = "active" THEN [state |-> "inactive"]
    ELSE active

\* heartbeat.py 82-96: without a recent heartbeat the state of every
\* container of the agent that has a state row becomes "unknown".
ContainerStateAfter(state, recent) ==
    IF recent = {} /\ state # NoneVal THEN [status |-> "unknown"] ELSE state

\* receive_agent_heartbeat (routes/agent.py 44-53): a Heartbeat row stamped
\* with the server's clock.
ReceiveHeartbeat ==
    /\ Cardinality(heartbeats) < MaxHeartbeats
    /\ heartbeats' = heartbeats \cup {wall}
    /\ UNCHANGED <<wall, agent, alive_agent, container, container_state,
                   container_uptime, uptime_sections, uptime_last_run, ticks>>
    /\ UNCHANGED <<hookVars, logVars, loopVars, tickVars, cadVars>>

\* HeartbeatProcessor.on_interval (heartbeat.py 45-96), one agent.
HeartbeatPass ==
    /\ ticks < MaxPasses
    /\ ticks' = ticks + 1
    /\ LET recent == RecentHeartbeats(heartbeats, wall, agent.heartbeat_interval)
       IN /\ alive_agent' = AliveAfter(alive_agent, recent)
          /\ container_state' = ContainerStateAfter(container_state, recent)
    /\ UNCHANGED <<wall, agent, heartbeats, container,
                   container_uptime, uptime_sections, uptime_last_run>>
    /\ UNCHANGED <<hookVars, logVars, loopVars, tickVars, cadVars>>

\* An agent is registered with its heartbeat interval and one running
\* container; no heartbeat has arrived and no pass has run.
InitHeartbeat ==
    /\ HookInit /\ LogInit /\ LoopIdle /\ TickIdle /\ CadenceIdle
    /\ wall = 1
    /\ \E h \in HeartbeatIntervals : agent = [heartbeat_interval |-> h]
    /\ heartbeats = {}
    /\ alive_agent = NoneVal
    /\ container = [created_at |-> 1]
    /\ container_state = [status |-> "running"]
    /\ container_uptime = NoneVal
    /\ uptime_sections = <<>>
    /\ uptime_last_run = 0
    /\ ticks = 0

NextHeartbeat ==
    \/ AdvanceWall(MaxTime)
    \/ ReceiveHeartbeat
    \/ HeartbeatPass

SpecHeartbeat == InitHeartbeat /\ [][NextHeartbeat]_vars

\* The newest heartbeat (only used where there is one).
Newest(hbs) == CHOOSE ts \in hbs : \A other \in hbs : other <= ts

\* C13: a liveness pass run at time t records an agent with heartbeat
\* interval h whose newest heartbeat is at t0 as active if
\* t <= t0 + 2*h*1.05 and as inactive otherwise (also when it has no
\* heartbeat); so an agent recorded inactive is recorded active by the
\* first pass after a newer heartbeat has arrived.
C13_LivenessThreshold ==
    [][(ticks' # ticks) =>
          LET h == agent.heartbeat_interval
              within == /\ heartbeats # {}
                        /\ wall * 100 <= Newest(heartbeats) * 100 + 2 * h * 105
          IN alive_agent' = [state |-> IF within THEN "active" ELSE "inactive"]]_vars

\* A pass found the agent without a recent heartbeat (its container is
\* "unknown"), a second heartbeat arrived and a later pass recorded the
\* agent active.
C13_Witness ==
    /\ alive_agent = [state |-> "active"]
    /\ container_state = [status |-> "unknown"]
    /\ Cardinality(heartbeats) = 2
    /\ agent.heartbeat_interval = 30
    /\ wall = Newest(heartbeats) + 63

(***************************************************************************)
(* Claims on discovery and the registry (SpecHook)                         *)
(***************************************************************************)
\* An instance of class cls is in the registry.
Registered(cls) == \E p \in DOMAIN processors : processors[p].cls = cls

\* C14: when loading or instantiating one implementation fails during
\* load_all, load_all still returns, that implementation is left out of the
\* registry and every other discovered implementation is registered and
\* started.
C14_LoadSkipsOnlyTheFailing ==
    discovered # NoneVal =>
        /\ ~discovered.raised
        /\ \A i \in DOMAIN discovered.files :
              LET cls == discovered.files[i]
              IN IF exec_module_ok(cls) /\ cls.ctor_ok
                     THEN Registered(cls) /\ startup_calls[cls.name] = 1
                     ELSE ~Registered(cls) /\ startup_calls[cls.name] = 0

\* C15: load_all calls on_startup exactly once for each processor instance,
\* when it registers it, and an on_startup that raises keeps no other
\* discovered processor from being instantiated, registered and started.
C15_StartupOncePerInstance ==
    (discovered # NoneVal /\ ~discovered.raised) =>
        /\ \A p \in DOMAIN processors : startup_calls[processors[p].cls.name] = 1
        /\ \A n \in ClassNames :
              startup_calls[n] = Cardinality({ p \in DOMAIN processors : processors[p].cls.name = n })
        /\ \A i \in DOMAIN discovered.files :
              discovered.files[i].ctor_ok => Registered(discovered.files[i])

\* A processor whose on_startup raised, and one discovered after it that
\* is registered and started.
C15_Witness ==
    /\ discovered # NoneVal
    /\ \E i, j \in DOMAIN discovered.files :
          /\ i < j
          /\ discovered.files[i].ctor_ok /\ ~discovered.files[i].startup_ok
          /\ Registered(discovered.files[j])
          /\ startup_calls[discovered.files[j].name] = 1

\* C16: every insert, point-get and delete of an entity of a tracked type,
\* made by a request handler or by a processor during its tick, invokes the
\* hooks of the processors registered for the type.
C16_EveryStoreOpIntercepted ==
    (/\ lastOp.op \in {"add", "delete", "get", "plain"}
     /\ lastOp.instance # NoneVal
     /\ get_processors(TypeOf(lastOp.instance)) # <<>>) =>
        /\ lastOp.op # "plain"
        /\ lastOp.hook.calls # <<>>

\* The processor at position p declares an entity type as its OutputType.
OutputSet(p) == get_output_type(processors[p].cls) \in Types

\* C17: when a hook of a processor with OutputType set returns a value of
\* that type, insert and delete pass that value, not the caller's entity,
\* to the store primitive, and get returns that value to the caller.
C17_SubstituteReachesPrimitive ==
    Intercepted =>
        \A i \in DOMAIN lastOp.hook.calls :
            LET call == lastOp.hook.calls[i]
            IN (/\ OutputSet(call.proc)
                /\ call.returned \notin {NoneVal, Raise}
                /\ TypeOf(call.returned) = get_output_type(processors[call.proc].cls)) =>
                   /\ UsedEntity = call.returned
                   /\ UsedEntity # lastOp.instance
                   /\ lastOp.op = "get" => lastOp.result = call.returned
                   /\ lastOp.op # "get" => lastOp.primitive = call.returned

\* A get whose hook returned a value of the processor's OutputType.
C17_Witness ==
    /\ Intercepted
    /\ lastOp.op = "get"
    /\ \E i \in DOMAIN lastOp.hook.calls :
          /\ OutputSet(lastOp.hook.calls[i].proc)
          /\ lastOp.hook.calls[i].returned = lastOp.result
    /\ lastOp.result # lastOp.instance

(***************************************************************************)
(* SpecServe: requests and ticks of a loaded server                        *)
(***************************************************************************)
\* The processors of a deployment: one that turns Log rows into Container
\* rows, one whose generic arguments cannot be found, and the repository's
\* processor of Container rows.
ServeClasses == <<LogToContainer, Untyped, UptimeProcessor>>
ServeRegistry ==
    RegisterFrom(ServeClasses, 1,
                 [processors |-> <<>>, by_model |-> <<>>,
                  startups |-> [n \in ClassNames |-> 0]])

\* lifespan after load_all (main.py 20-30): the registry is filled, requests
\* are served and the loop of one of the registered processors ticks
\* (manager.py 68-70: one task for each processor of self.processors).
InitServe ==
    /\ processors = ServeRegistry.processors
    /\ processors_by_model = ServeRegistry.by_model
    /\ startup_calls = ServeRegistry.startups
    /\ loaded = TRUE
    /\ discovered = [files |-> ServeClasses, raised |-> FALSE]
    /\ lastOp = NoOp
    /\ LogInit /\ LoopIdle /\ AnaIdle /\ CadenceIdle
    /\ proc \in { ServeRegistry.processors[p].cls : p \in DOMAIN ServeRegistry.processors }
    /\ store \in InitialStores
    /\ tick = "idle"
    /\ results = <<>>
    /\ idx = 0
    /\ pending = <<>>
    /\ last_run = 0
    /\ now = 0
    /\ tickLog = NoOp

NextServe ==
    \/ \E instance \in CallerEntities : Add(instance)
    \/ \E instance \in CallerEntities : Delete(instance)
    \/ \E entity \in Types, ident \in Ids : Get(entity, ident)
    \/ CloseSession
    \/ \E interval_raises \in BOOLEAN : TickStart(interval_raises)
    \/ TickEach
    \/ TickCommit

SpecServe == InitServe /\ [][NextServe]_vars

\* C18: when a processor with OutputType set returns nothing from a hook,
\* the insert, get or delete goes on with the caller's entity unchanged; when
\* on_interval_each returns nothing for a row of a tick, the row is skipped:
\* nothing is staged, merged or inserted for it and the tick goes on.
C18_NothingReturnedNoSubstitution ==
    /\ [](Intercepted =>
            \A i \in DOMAIN lastOp.hook.calls :
                (/\ get_output_type(processors[lastOp.hook.calls[i].proc].cls) # "None"
                 /\ lastOp.hook.calls[i].returned = NoneVal) =>
                    /\ UsedEntity = lastOp.instance
                    /\ lastOp.hook.ret = NoneVal)
    /\ []((tickLog # NoOp /\ tickLog.outcome = "ok" /\ tickLog.returned = <<>>)
            => store = tickLog.before)
    /\ [][((tick = "each" /\ tickLog'.calls = tickLog.calls + 1 /\ tickLog'.last = NoneVal)
            => (/\ pending' = pending
                /\ store' = store
                /\ tickLog'.returned = tickLog.returned
                /\ tickLog'.outcome = "running"
                /\ tick' = "each"
                /\ idx' = idx + 1))]_vars

\* A get went on with the caller's entity after a hook with an output type
\* returned nothing, and a tick of a processor with an output type that
\* skipped every one of its rows has committed.
C18_Witness ==
    /\ Intercepted
    /\ lastOp.op = "get"
    /\ lastOp.hook.calls # <<>>
    /\ lastOp.hook.calls[Len(lastOp.hook.calls)].returned = NoneVal
    /\ get_output_type(processors[lastOp.hook.calls[Len(lastOp.hook.calls)].proc].cls) # "None"
    /\ lastOp.result = lastOp.instance
    /\ get_output_type(proc) # "None"
    /\ tickLog # NoOp
    /\ tickLog.outcome = "ok"
    /\ tickLog.rows = 2
    /\ tickLog.calls = 2
    /\ tickLog.returned = <<>>

(***************************************************************************)
(* Further claims on the scheduler (SpecLoop)                              *)
(***************************************************************************)
\* C19: once shutdown() has returned no processor holds an open store
\* session and none is opened afterwards, also when a tick of the processor
\* was in flight at the time of the call (stated for the runs in which no
\* on_shutdown hook raised, so that every close() was made).
C19_SessionsStayClosedAfterShutdown ==
    (shutdown_calls >= 1 /\ \A p \in Procs : close_calls[p] = on_shutdown_calls[p]) =>
        \A p \in Procs : session[p] = "closed"

\* C23: a processor's on_shutdown hook and the close of its session are
\* never executed while a tick of that processor is in flight in its worker
\* thread.
C23_NoShutdownDuringTick ==
    [][(\A p \in Procs :
          (on_shutdown_calls'[p] > on_shutdown_calls[p] \/ close_calls'[p] > close_calls[p])
              => thread[p] = "idle")]_vars

\* C31: with start_interval_loop invoked once, at most one tick of a
\* processor is in flight at any time: a tick of a processor starts only
\* when no tick of that processor is running, and a loop that is about to
\* start a tick has no tick in flight.
C31_OneTickInFlightPerProcessor ==
    /\ [](\A p \in Procs : loop[p] \in {"created", "sleeping"} => thread[p] = "idle")
    /\ [][(\A p \in Procs :
             (thread'[p] = "started" /\ thread[p] # "started")
                 => (thread[p] = "idle" /\ loop[p] # "ticking" /\ loop'[p] = "ticking"))]_vars

\* A processor's second tick has started: its first tick opened the
\* session and returned, and no shutdown was called.
C31_Witness ==
    \E p \in Procs :
        /\ loop[p] = "ticking"
        /\ thread[p] = "started"
        /\ session[p] = "open"
        /\ shutdown_calls = 0

\* shutdown() was called while start_interval_loop was running: the loop
\* has started, has not returned, and running is false.
ShutdownWhileRunning ==
    /\ shutdown_calls > 0
    /\ ~running
    /\ sup \in {"sleeping", "gathering"}

\* C32: after shutdown() is called while start_interval_loop is running,
\* start_interval_loop eventually returns and every per-processor loop task
\* eventually terminates, even if the tick of some processor never returns.
C32_LoopsTerminateAfterShutdown ==
    ShutdownWhileRunning ~> (sup = "done" /\ \A p \in Procs : loop[p] = "done")

\* Everything has terminated after a shutdown and the tick of the stalling
\* processor is still in flight.
C32_Witness ==
    /\ shutdown_calls > 0
    /\ ~running
    /\ sup = "done"
    /\ \A p \in Procs : loop[p] = "done"
    /\ \E p \in Procs : Stalls(p) /\ thread[p] = "working"

(***************************************************************************)
(* Further claims on the registry (SpecHook)                               *)
(***************************************************************************)
\* The instances load_all constructed, in discovery order: one for each
\* discovered class whose constructor returned.
Constructed ==
    LET ok == SelectSeq(discovered.files, LAMBDA cls : cls.ctor_ok)
    IN [i \in DOMAIN ok |-> [cls |-> ok[i]]]

\* The positions, in increasing order, of the instances whose declared
\* InputType is model_type.
InstancesFor(model_type) ==
    SelectSeq([p \in DOMAIN processors |-> p],
              LAMBDA p : get_model_type(processors[p].cls) = model_type)

\* C20: get_processors(type) returns exactly the processor instances whose
\* declared InputType is that type, in discovery (registration) order, and
\* the empty sequence for a type with no registered processor.
C20_ProcessorsForTypeInOrder ==
    loaded =>
        /\ processors = Constructed
        /\ \A t \in Types :
              /\ get_processors(t) = InstancesFor(t)
              /\ (\A p \in DOMAIN processors : get_model_type(processors[p].cls) # t)
                     => get_processors(t) = <<>>

\* Two Log processors registered with another instance between them, and
\* a type without processor.
C20_Witness ==
    /\ loaded
    /\ get_processors("Log") = <<1, 3>>
    /\ get_processors("Heartbeat") = <<>>
    /\ Len(processors) = 3

(***************************************************************************)
(* SpecCadence: the sleep between the ticks of one processor's loop        *)
(***************************************************************************)
\* Time is counted in units of 0.05 s, so that elapsed times on both sides
\* of the floor are whole numbers.  Floor: the 0.1 of manager.py 92.
Floor == 2

\* Processor.interval (processors/__init__.py: interval: int = 60), in whole
\* seconds: one second, and 0 (ticks as fast as the floor allows).
Intervals == {0, 20}

\* Longest tick, in units, and loop iterations modelled.
MaxElapsed == 23
MaxCadenceTicks == 3

\* The loop sleeping the whole interval after each tick.
sleep_time_full(interval, elapsed) == IF interval > Floor THEN interval ELSE Floor

\* manager.py 92: sleep_time = max(0.1, processor.interval - elapsed)
sleep_time(interval, elapsed) ==
    IF interval - elapsed > Floor THEN interval - elapsed ELSE Floor

\* manager.py 85-92: start_time is read, the tick runs for `elapsed` in its
\* worker thread, elapsed and sleep_time are computed.
CadenceTick(elapsed) ==
    /\ cadence.at = "top"
    /\ cadence.n < MaxCadenceTicks
    /\ cadence' = [cadence EXCEPT !.at = "sleeping",
                                  !.n = @ + 1,
                                  !.start_time = cadence.time,
                                  !.time = @ + elapsed,
                                  !.elapsed = elapsed,
                                  !.sleep_time = sleep_time(cadence.interval, elapsed)]
    /\ UNCHANGED <<hookVars, logVars, loopVars, tickVars, anaVars>>

\* manager.py 94-97: sleep_time is positive, the task sleeps for it and
\* goes back to the top of the loop.
CadenceSleep ==
    /\ cadence.at = "sleeping"
    /\ cadence.sleep_time > 0
    /\ cadence' = [cadence EXCEPT !.at = "top", !.time = @ + cadence.sleep_time]
    /\ UNCHANGED <<hookVars, logVars, loopVars, tickVars, anaVars>>

\* The task of a processor begins its loop at time 0.
InitCadence ==
    /\ HookInit /\ LogInit /\ LoopIdle /\ TickIdle /\ AnaIdle
    /\ \E interval \in Intervals :
          cadence = [at |-> "top", n |-> 0, interval |-> interval, time |-> 0,
                     start_time |-> 0, elapsed |-> 0, sleep_time |-> 0]

NextCadence ==
    \/ \E elapsed \in 0 .. MaxElapsed : CadenceTick(elapsed)
    \/ CadenceSleep

SpecCadence == InitCadence /\ [][NextCadence]_vars

\* C21: after every tick the loop sleeps max(floor, interval - elapsed): never
\* less than the floor, never a negative time; and when the tick took less
\* than interval - floor, the next tick starts exactly one interval after the
\* start of the tick before it, whatever the earlier ticks took.
C21_SleepKeepsCadence ==
    /\ cadence.at = "sleeping" =>
          /\ cadence.sleep_time >= Floor
          /\ cadence.sleep_time > 0
          /\ cadence.sleep_time >= cadence.interval - cadence.elapsed
          /\ cadence.sleep_time \in {Floor, cadence.interval - cadence.elapsed}
    /\ (cadence.at = "top" /\ cadence.n > 0
            /\ cadence.elapsed < cadence.interval - Floor) =>
          cadence.time = cadence.start_time + cadence.interval

\* The loop is about to start its third tick; the tick before took less
\* than the interval, the one before that took longer than the interval.
C21_Witness ==
    /\ cadence.at = "top"
    /\ cadence.n = 2
    /\ cadence.elapsed > 0
    /\ cadence.elapsed < cadence.interval - Floor
    /\ cadence.start_time > cadence.interval + Floor
    /\ cadence.time = cadence.start_time + cadence.interval

\* C29: the value a hook returns is accepted as the substitute only if its
\* runtime type equals the processor's OutputType exactly; a value of any
\* other type, a subtype of OutputType included, is a contract violation.
C29_OutputTypeMatchedExactly ==
    Intercepted =>
        \A i \in DOMAIN lastOp.hook.calls :
            LET call == lastOp.hook.calls[i]
                output_type == get_output_type(processors[call.proc].cls)
            IN (call.returned \notin {NoneVal, Raise}
                    /\ TypeOf(call.returned) # output_type) =>
                   /\ call.outcome = "violation"
                   /\ UsedEntity # call.returned

\* C30: for insert, get and delete the processors invoked are the ones
\* registered for the runtime type of the entity handled, not for the type
\* the caller named (for get: the type of the row returned, not the type
\* argument).
C30_HooksOfRuntimeType ==
    Intercepted =>
        /\ lastOp.hook.model_type = TypeOf(lastOp.instance)
        /\ \A i \in DOMAIN lastOp.hook.calls :
              get_model_type(processors[lastOp.hook.calls[i].proc].cls) = TypeOf(lastOp.instance)
        /\ (get_processors(TypeOf(lastOp.instance)) # <<>>) => lastOp.hook.calls # <<>>

(***************************************************************************)
(* Further claims on a loaded server (SpecServe)                           *)
(***************************************************************************)
\* The registered instances whose InputType cannot be determined.
UntypedInstances == { p \in DOMAIN processors : get_model_type(processors[p].cls) = "None" }

\* C22: a processor whose InputType cannot be determined is kept by the
\* registry and has on_interval invoked in every tick of its loop, but no
\* type-indexed lookup returns it, no store operation calls its hooks, and
\* its on_interval_each is invoked for no row.
C22_UntypedKeptButUnreachable ==
    /\ \A i \in DOMAIN discovered.files :
          (discovered.files[i].ctor_ok /\ get_model_type(discovered.files[i]) = "None") =>
              \E p \in UntypedInstances : processors[p].cls = discovered.files[i]
    /\ \A p \in UntypedInstances :
          /\ \A t \in DOMAIN processors_by_model : p \notin Range(processors_by_model[t])
          /\ \A t \in Types \cup {"None", "NoneType"} : p \notin Range(get_processors(t))
          /\ Intercepted =>
                \A i \in DOMAIN lastOp.hook.calls : lastOp.hook.calls[i].proc # p
    /\ (get_model_type(proc) = "None" /\ tickLog # NoOp) =>
          /\ tickLog.on_interval = 1
          /\ tickLog.rows = 0
          /\ tickLog.calls = 0
          /\ tickLog.returned = <<>>
          /\ tick = "idle"
          /\ store = tickLog.before

\* The second tick of the untyped processor has run on a store that holds
\* rows, and an insert of a Log ran the hook of the Log processor.
C22_Witness ==
    /\ UntypedInstances # {}
    /\ get_model_type(proc) = "None"
    /\ tickLog # NoOp
    /\ tickLog.n = 2
    /\ tickLog.outcome = "ok"
    /\ Len(store) >= 2
    /\ Intercepted
    /\ lastOp.op = "add"
    /\ lastOp.hook.calls # <<>>

(***************************************************************************)
(* Further claims on the uptime processor (SpecUptime)                     *)
(***************************************************************************)
\* The reading of time() when the server started (InitUptime).
ServerStart == 1

\* C24: a tick adds to a container's uptime_seconds the time elapsed since
\* the previous tick when the container is running and nothing otherwise, so
\* that no elapsed second is added twice, also when a tick fails after some
\* rows were processed: the seconds counted never exceed the seconds that
\* have elapsed since the server started.
C24_NoSecondCountedTwice ==
    container_uptime # NoneVal =>
        container_uptime.uptime_seconds <= wall - ServerStart

\* The status the readers of the state table see for a container: "unknown"
\* when it has no state row (uptime.py 107, 118).
Observed(state) == IF state = NoneVal THEN "unknown" ELSE state.status

\* The section opened last (the most recent one), when there is one.
MostRecent(secs) == secs[Len(secs)]

\* secs with its most recent section closed at t if it was open, and a
\* section of state observed opened at t.
Transition(secs, observed, t) ==
    Append(IF secs # <<>> /\ MostRecent(secs).end_time = NoEnd
               THEN [secs EXCEPT ![Len(secs)].end_time = t]
               ELSE secs,
           UptimeSection(t, NoEnd, observed))

\* C27: an uptime tick opens a section for the container exactly when the
\* observed status ("unknown" without a state row) differs from the state of
\* the most recent section or there is no section yet, and then sets the
\* end-time of the previous open section to the transition instant; when the
\* status is unchanged no section is opened or closed.  (A tick whose hook
\* raises before its commit changes nothing.)
C27_SectionOpensExactlyOnChange ==
    [][(ticks' # ticks /\ container # NoneVal) =>
          (IF uptime_sections = <<>>
                  \/ MostRecent(uptime_sections).state # Observed(container_state)
               THEN \/ uptime_sections' = uptime_sections
                    \/ uptime_sections' =
                          Transition(uptime_sections, Observed(container_state), wall)
               ELSE uptime_sections' = uptime_sections)]_vars

\* C28: in every reachable state the container has at most one uptime
\* section without end-time, which is one with the latest start, and two
\* sections that follow each other by start time (sections are stored in
\* the order of their start times) never carry the same state.
C28_OneOpenSectionAlternatingStates ==
    /\ Cardinality({ i \in DOMAIN uptime_sections : uptime_sections[i].end_time = NoEnd }) <= 1
    /\ \A i \in DOMAIN uptime_sections :
          uptime_sections[i].end_time = NoEnd => i \in LastSections(uptime_sections)
    /\ \A i \in DOMAIN uptime_sections :
          i < Len(uptime_sections) =>
              /\ uptime_sections[i].start_time <= uptime_sections[i + 1].start_time
              /\ uptime_sections[i].state # uptime_sections[i + 1].state

(***************************************************************************)
(* SpecFleet: the liveness pass over several agents and their containers   *)
(*            (processors/analytical/heartbeat.py)                         *)
(* In this specification agent, alive_agent, container and container_state *)
(* hold one entry per row of their table, and heartbeats holds the         *)
(* Heartbeat rows (agent_id, timestamp).                                   *)
(***************************************************************************)
\* Last second of the wall clock and heartbeats received in a run.
MaxFleetTime == 5
MaxFleetHeartbeats == 2

\* Two agents with heartbeat_interval 1; agent 1 has two containers, of
\* which the second never reported a status; agent 2 has one.
AgentIds == {1, 2}
FleetContainers ==
    [c \in {1, 2, 3} |-> [agent_id |-> IF c = 3 THEN 2 ELSE 1, created_at |-> 1]]

\* The pass marking the containers of every agent.
ContainersOfAny(agent_id) == DOMAIN container

\* heartbeat.py 84-88: select(Container).where(Container.agent_id == agent.id)
ContainersOf(agent_id) == { c \in DOMAIN container : container[c].agent_id = agent_id }

\* heartbeat.py 60-65 for the rows of one agent.
RecentOf(agent_id) ==
    RecentHeartbeats({ h.timestamp : h \in { x \in heartbeats : x.agent_id = agent_id } },
                     wall, agent[agent_id].heartbeat_interval)

\* receive_agent_heartbeat (routes/agent.py 44-53)
FleetHeartbeat(agent_id) ==
    /\ Cardinality(heartbeats) < MaxFleetHeartbeats
    /\ heartbeats' = heartbeats \cup {[agent_id |-> agent_id, timestamp |-> wall]}
    /\ UNCHANGED <<wall, agent, alive_agent, container, container_state,
                   container_uptime, uptime_sections, uptime_last_run, ticks>>
    /\ UNCHANGED <<hookVars, logVars, loopVars, tickVars, cadVars>>

\* update_container_status (routes/agent.py 148-168) for a container that
\* has a state row.
FleetReport(c, status) ==
    /\ container_state[c] # NoneVal
    /\ container_state[c] # [status |-> status]
    /\ container_state' = [container_state EXCEPT ![c] = [status |-> status]]
    /\ UNCHANGED <<wall, agent, heartbeats, alive_agent, container,
                   container_uptime, uptime_sections, uptime_last_run, ticks>>
    /\ UNCHANGED <<hookVars, logVars, loopVars, tickVars, cadVars>>

\* HeartbeatProcessor.on_interval (heartbeat.py 45-96): the loop over the
\* agents.  Each agent's pass writes its own AliveAgent row and the state
\* rows of the containers selected for it.
FleetPass ==
    /\ ticks < MaxPasses
    /\ ticks' = ticks + 1
    /\ alive_agent' = [a \in AgentIds |-> AliveAfter(alive_agent[a], RecentOf(a))]
    /\ container_state' =
          [c \in DOMAIN container_state |->
              IF \E a \in AgentIds : RecentOf(a) = {} /\ c \in ContainersOf(a)
                  THEN ContainerStateAfter(container_state[c], {})
                  ELSE container_state[c]]
    /\ UNCHANGED <<wall, agent, heartbeats, container,
                   container_uptime, uptime_sections, uptime_last_run>>
    /\ UNCHANGED <<hookVars, logVars, loopVars, tickVars, cadVars>>

InitFleet ==
    /\ HookInit /\ LogInit /\ LoopIdle /\ TickIdle /\ CadenceIdle
    /\ wall = 1
    /\ agent = [a \in AgentIds |-> [heartbeat_interval |-> 1]]
    /\ heartbeats = {}
    /\ alive_agent = [a \in AgentIds |-> NoneVal]
    /\ container = FleetContainers
    /\ container_state = [c \in DOMAIN FleetContainers |->
                             IF c = 2 THEN NoneVal ELSE [status |-> "running"]]
    /\ container_uptime = NoneVal
    /\ uptime_sections = <<>>
    /\ uptime_last_run = 0
    /\ ticks = 0

NextFleet ==
    \/ AdvanceWall(MaxFleetTime)
    \/ \E a \in AgentIds : FleetHeartbeat(a)
    \/ \E c \in DOMAIN FleetContainers, status \in Statuses : FleetReport(c, status)
    \/ FleetPass

SpecFleet == InitFleet /\ [][NextFleet]_vars

\* The agent has a heartbeat within 2 * interval * 1.05 seconds of now.
HasRecentHeartbeat(a) ==
    \E h \in heartbeats :
        /\ h.agent_id = a
        /\ (wall - h.timestamp) * 100 <= 2 * agent[a].heartbeat_interval * 105

\* C26: after a liveness pass in which an agent has no heartbeat within its
\* threshold every container of that agent has state "unknown"; the states
\* of the containers of the agents that have one are left as they were.
C26_CascadeOnlyForSilentAgents ==
    [][(ticks' # ticks) =>
          (\A c \in DOMAIN container :
              IF HasRecentHeartbeat(container[c].agent_id)
                  THEN container_state'[c] = container_state[c]
                  ELSE /\ Observed(container_state'[c]) = "unknown"
                       /\ container_state[c] # NoneVal =>
                             container_state'[c] = [status |-> "unknown"])]_vars

\* A pass found agent 1 silent and agent 2 alive: the running container of
\* agent 1 is unknown, the one of agent 2 is still running.
C26_Witness ==
    /\ ticks >= 1
    /\ DOMAIN container = {1, 2, 3}
    /\ alive_agent[1] = [state |-> "inactive"]
    /\ alive_agent[2] = [state |-> "active"]
    /\ container_state[1] = [status |-> "unknown"]
    /\ container_state[2] = NoneVal
    /\ container_state[3] = [status |-> "running"]

=============================================================================
